---- MODULE Spec2Model ----
(***************************************************************************)
(* Model of The_Heap: the slab allocator (slaballoc), its spin-locked      *)
(* wrapper (LockedAlloc) and the FAT32 volume engine (fat32).              *)
(*                                                                         *)
(* Addresses, sizes and bytes are naturals. A null pointer and the `None`  *)
(* of an Option<NonNull<_>> are both 0, as in the compiled representation. *)
(***************************************************************************)
EXTENDS Integers, Sequences, FiniteSets, TLC

(***************************************************************************)
(* Bounds of the model.                                                    *)
(***************************************************************************)
\* at most this many allocations are live at once
MaxLive == 2
\* the threads that share a LockedAlloc
NThreads == 2

\* the number of calls made on a volume
MaxCalls == 2

(***************************************************************************)
(* slaballoc/src/allocator.rs : constants                                  *)
(***************************************************************************)
NULL == 0

CHUNK_SIZE == 4096

SIZE_CLASSES == <<8, 16, 32, 64, 128, 256, 512, 1024, 2048, 4096>>

\* class_index_for's `None`
NoClass == 0

Max(a, b) == IF a >= b THEN a ELSE b

Min(a, b) == IF a <= b THEN a ELSE b

(***************************************************************************)
(* slaballoc/src/util.rs                                                   *)
(***************************************************************************)
\* x != 0 && (x & (x - 1)) == 0
RECURSIVE is_power_of_two(_)
is_power_of_two(x) ==
    IF x <= 0 THEN FALSE
    ELSE IF x = 1 THEN TRUE
    ELSE IF x % 2 = 1 THEN FALSE
    ELSE is_power_of_two(x \div 2)

\* (x + align - 1) & !(align - 1): for align a power of two, clearing the low
\* bits of y is y - (y mod align).
align_up(x, align) == (x + align - 1) - ((x + align - 1) % align)

(***************************************************************************)
(* State.                                                                  *)
(***************************************************************************)
VARIABLES
    \* SlabAllocator's fields
    heap_start, heap_end, bump, caches, initialized,
    \* the first machine word of every block a FreeNode was written to
    \* (FreeNode.next), address -> value
    mem,
    \* history: the live allocations, the blocks deallocated per class and
    \* not handed out again (most recent first), whether an allocation has
    \* failed and the classes deallocated into since the last failure, the
    \* last call
    live, freed, sawNull, freedAfterNull, last,
    \* the layout a caller allocates over and over, and the parity of the
    \* number of calls it has made
    repeat,
    \* SpinLock.locked, and per thread of a LockedAlloc user: where it is in
    \* its call, the call, the allocator fields it has read inside the
    \* critical section, and what the call returned
    locked, pc, call, seen, ret,
    \* the buffer that holds the FAT32 volume (empty: no volume), the last
    \* call made on it with what it returned, the number of calls made, and
    \* the call that is following a cluster chain, one cluster at a time
    disk, fatLast, ncalls, walk

allocVars == <<heap_start, heap_end, bump, caches, initialized, mem>>

histVars == <<live, freed, sawNull, freedAfterNull, last>>

lockVars == <<locked, pc, call, seen, ret>>

fatVars == <<disk, fatLast, ncalls, walk>>

vars == <<allocVars, histVars, repeat, lockVars, fatVars>>

\* the allocator as one value, the `self` of the methods
Self ==
    [heap_start |-> heap_start, heap_end |-> heap_end, bump |-> bump,
     caches |-> caches, initialized |-> initialized, mem |-> mem]

Classes == 1..Len(SIZE_CLASSES)

\* SlabAllocator::new
new ==
    [heap_start |-> 0, heap_end |-> 0, bump |-> 0,
     caches |-> [i \in Classes |-> NULL], initialized |-> FALSE,
     mem |-> <<>>]

\* SlabAllocator::init
init(self, start, size) ==
    [self EXCEPT !.heap_start = start, !.heap_end = start + size,
                 !.bump = start, !.initialized = TRUE]

\* Layout
Layout(size, align) == [size |-> size, align |-> align]

\* class_index_for that looks at the size alone
class_index_for_by_size(layout) ==
    LET fit == {i \in Classes : layout.size <= SIZE_CLASSES[i]}
    IN  IF fit = {} THEN NoClass
        ELSE CHOOSE i \in fit : \A j \in fit : i <= j

\* class_index_for: the first class that holds max(size, align)
class_index_for(layout) ==
    LET size == Max(layout.size, layout.align)
        fit == {i \in Classes : size <= SIZE_CLASSES[i]}
    IN  IF fit = {} THEN NoClass
        ELSE CHOOSE i \in fit : \A j \in fit : i <= j

\* core::ptr::write_bytes(start, 0, size) seen on the words of `mem`
zero_fill(m, start, size) ==
    [a \in DOMAIN m |-> IF a >= start /\ a < start + size THEN 0 ELSE m[a]]

\* alloc_from_bump that never moves the bump cursor
alloc_from_bump_no_advance(self, layout) ==
    LET start == align_up(self.bump, layout.align)
        end == start + layout.size
    IN  IF end > self.heap_end
        THEN [self |-> self, res |-> NULL]
        ELSE [self |-> self, res |-> start]

\* alloc_from_bump that refuses a block ending exactly at heap_end
alloc_from_bump_strict_end(self, layout) ==
    LET start == align_up(self.bump, layout.align)
        end == start + layout.size
    IN  IF end >= self.heap_end
        THEN [self |-> self, res |-> NULL]
        ELSE [self |-> [self EXCEPT !.bump = end,
                                    !.mem = zero_fill(self.mem, start, layout.size)],
              res |-> start]

\* alloc_from_bump without the test against heap_end
alloc_from_bump_past_end(self, layout) ==
    LET start == align_up(self.bump, layout.align)
        end == start + layout.size
    IN  [self |-> [self EXCEPT !.bump = end,
                               !.mem = zero_fill(self.mem, start, layout.size)],
         res |-> start]

\* alloc_from_bump that moves the bump cursor before the test against heap_end
alloc_from_bump_eager(self, layout) ==
    LET start == align_up(self.bump, layout.align)
        end == start + layout.size
    IN  IF end > self.heap_end
        THEN [self |-> [self EXCEPT !.bump = end], res |-> NULL]
        ELSE [self |-> [self EXCEPT !.bump = end,
                                    !.mem = zero_fill(self.mem, start, layout.size)],
              res |-> start]

\* alloc_from_bump: the new allocator and the address (NULL for None)
alloc_from_bump(self, layout) ==
    LET start == align_up(self.bump, layout.align)
        end == start + layout.size
    IN  IF end > self.heap_end
        THEN [self |-> self, res |-> NULL]
        ELSE [self |-> [self EXCEPT !.bump = end,
                                    !.mem = zero_fill(self.mem, start, layout.size)],
              res |-> start]

\* the while loop of refill_cache with the test off + block_size < chunk_end:
\* it leaves the last block of the chunk out
refill_loop_short(m, head, off, chunk_end, block_size) ==
    LET n == (chunk_end - off - 1) \div block_size
        blocks == {off + k * block_size : k \in 0..(n - 1)}
    IN  [mem |-> [a \in DOMAIN m \cup blocks |->
                     IF a \in blocks
                     THEN (IF a = off THEN head ELSE a - block_size)
                     ELSE m[a]],
         head |-> IF n = 0 THEN head ELSE off + (n - 1) * block_size]

\* the while loop of refill_cache, which pushes the blocks off, off + block_size,
\* ... while they end within the chunk: the k-th block pushed points to the
\* head before it (the old head for the first, the block below it for the
\* others) and the head ends on the last one
refill_loop(m, head, off, chunk_end, block_size) ==
    LET n == (chunk_end - off) \div block_size
        blocks == {off + k * block_size : k \in 0..(n - 1)}
    IN  [mem |-> [a \in DOMAIN m \cup blocks |->
                     IF a \in blocks
                     THEN (IF a = off THEN head ELSE a - block_size)
                     ELSE m[a]],
         head |-> IF n = 0 THEN head ELSE off + (n - 1) * block_size]

\* refill_cache that takes its chunk with the alignment of a pointer
refill_cache_unaligned(self, idx) ==
    LET block_size == SIZE_CLASSES[idx]
        r == alloc_from_bump(self, Layout(CHUNK_SIZE, 8))
    IN  IF r.res = NULL
        THEN [self |-> r.self, ok |-> FALSE]
        ELSE LET l == refill_loop(r.self.mem, r.self.caches[idx], r.res,
                                  r.res + CHUNK_SIZE, block_size)
             IN  [self |-> [r.self EXCEPT !.mem = l.mem, !.caches[idx] = l.head],
                  ok |-> TRUE]

\* refill_cache: the new allocator and whether a chunk was taken
refill_cache(self, idx) ==
    LET block_size == SIZE_CLASSES[idx]
        r == alloc_from_bump(self, Layout(CHUNK_SIZE, CHUNK_SIZE))
    IN  IF r.res = NULL
        THEN [self |-> r.self, ok |-> FALSE]
        ELSE LET l == refill_loop(r.self.mem, r.self.caches[idx], r.res,
                                  r.res + CHUNK_SIZE, block_size)
             IN  [self |-> [r.self EXCEPT !.mem = l.mem, !.caches[idx] = l.head],
                  ok |-> TRUE]

\* a pop that returns the head and leaves it on the list
pop_head_kept(self, idx) ==
    [self |-> self, res |-> self.caches[idx]]

\* the pop at the end of alloc's small path
pop_head(self, idx) ==
    LET head == self.caches[idx]
    IN  IF head = NULL
        THEN [self |-> self, res |-> NULL]
        ELSE [self |-> [self EXCEPT !.caches[idx] = self.mem[head]], res |-> head]

\* SlabAllocator::alloc
alloc(self, layout) ==
    IF ~self.initialized
    THEN [self |-> self, res |-> NULL]
    ELSE LET idx == class_index_for(layout)
         IN  IF idx # NoClass
             THEN IF self.caches[idx] = NULL
                  THEN LET f == refill_cache(self, idx)
                       IN  IF ~f.ok THEN [self |-> f.self, res |-> NULL]
                           ELSE pop_head(f.self, idx)
                  ELSE pop_head(self, idx)
             ELSE alloc_from_bump(self, layout)

\* dealloc that appends the block at the tail's side: it leaves the head alone
\* when the list is not empty and links the block behind the head
dealloc_behind_head(self, ptr, layout) ==
    IF ptr = NULL \/ ~self.initialized
    THEN self
    ELSE LET idx == class_index_for(layout)
         IN  IF idx = NoClass THEN self
             ELSE IF self.caches[idx] = NULL
             THEN [self EXCEPT !.mem = (ptr :> NULL) @@ self.mem, !.caches[idx] = ptr]
             ELSE [self EXCEPT !.mem = (ptr :> self.mem[self.caches[idx]])
                                       @@ (self.caches[idx] :> ptr) @@ self.mem]

\* dealloc without the check of the initialization flag
dealloc_unchecked(self, ptr, layout) ==
    IF ptr = NULL
    THEN self
    ELSE LET idx == class_index_for(layout)
         IN  IF idx # NoClass
             THEN [self EXCEPT !.mem = (ptr :> self.caches[idx]) @@ self.mem,
                               !.caches[idx] = ptr]
             ELSE self

\* dealloc that gives the last large block back to the bump region
dealloc_recycling(self, ptr, layout) ==
    IF ptr = NULL \/ ~self.initialized
    THEN self
    ELSE LET idx == class_index_for(layout)
         IN  IF idx # NoClass
             THEN [self EXCEPT !.mem = (ptr :> self.caches[idx]) @@ self.mem,
                               !.caches[idx] = ptr]
             ELSE IF ptr + layout.size = self.bump
                  THEN [self EXCEPT !.bump = ptr]
                  ELSE self

\* SlabAllocator::dealloc
dealloc(self, ptr, layout) ==
    IF ptr = NULL \/ ~self.initialized
    THEN self
    ELSE LET idx == class_index_for(layout)
         IN  IF idx # NoClass
             THEN [self EXCEPT !.mem = (ptr :> self.caches[idx]) @@ self.mem,
                               !.caches[idx] = ptr]
             ELSE self

(***************************************************************************)
(* The allocator core driven by one owner: init once, then allocations and *)
(* deallocations that respect the caller's contract (a live block, with    *)
(* the layout it was allocated with, once), null deallocations, and any    *)
(* call on an allocator that was never initialized.                        *)
(***************************************************************************)
\* the regions <<start, size>> handed to init: a CHUNK_SIZE-aligned one with
\* room for two chunks, or a chunk and a large block, and a tail; and a
\* 16-aligned one that ends exactly where its only aligned chunk ends
Heaps ==
    {<<CHUNK_SIZE, 2 * CHUNK_SIZE + 104>>, <<CHUNK_SIZE + 16, 2 * CHUNK_SIZE - 16>>}

\* the layouts requested: two of size class 32 (one chosen by its alignment),
\* class 4096, a large one and a large one of size zero
Layouts ==
    {Layout(24, 32), Layout(32, 8), Layout(4096, 64), Layout(4097, 8),
     Layout(0, 8192)}

\* pointers a caller may pass to dealloc on an allocator never initialized
StrayPtrs == {NULL, 64, CHUNK_SIZE}

NoCall ==
    [op |-> "none", size |-> 0, align |-> 0, ptr |-> NULL, bump0 |-> 0,
     hadFree |-> FALSE, expect |-> NULL, licensed |-> TRUE, init0 |-> FALSE]

SetSelf(s) ==
    /\ heap_start' = s.heap_start
    /\ heap_end' = s.heap_end
    /\ bump' = s.bump
    /\ caches' = s.caches
    /\ initialized' = s.initialized
    /\ mem' = s.mem

AllocInit ==
    /\ heap_start = new.heap_start
    /\ heap_end = new.heap_end
    /\ bump = new.bump
    /\ caches = new.caches
    /\ initialized = new.initialized
    /\ mem = new.mem
    /\ live = {}
    /\ freed = [i \in Classes |-> <<>>]
    /\ sawNull = FALSE
    /\ freedAfterNull = {}
    /\ last = NoCall

\* the history after alloc(layout) returned res
AllocHistory(layout, res) ==
    LET idx == class_index_for(layout)
        n == CHOOSE k \in 1..(MaxLive + 2) :
                 /\ [addr |-> res, size |-> layout.size, align |-> layout.align, n |-> k] \notin live
                 /\ \A j \in 1..(k - 1) :
                        [addr |-> res, size |-> layout.size, align |-> layout.align, n |-> j] \in live
    IN  /\ live' = IF res = NULL THEN live
                   ELSE live \cup {[addr |-> res, size |-> layout.size,
                                    align |-> layout.align, n |-> n]}
        /\ freed' = IF idx = NoClass \/ res = NULL THEN freed
                    ELSE [freed EXCEPT ![idx] = SelectSeq(@, LAMBDA a : a # res)]
        /\ sawNull' = (sawNull \/ (initialized /\ res = NULL))
        /\ freedAfterNull' = IF initialized /\ res = NULL THEN {} ELSE freedAfterNull
        /\ last' = [op |-> "alloc", size |-> layout.size, align |-> layout.align,
                    ptr |-> res, bump0 |-> bump,
                    hadFree |-> (idx # NoClass /\ caches[idx] # NULL),
                    expect |-> IF idx # NoClass /\ freed[idx] # <<>>
                               THEN Head(freed[idx]) ELSE NULL,
                    licensed |-> (~sawNull \/ idx \in freedAfterNull),
                    init0 |-> initialized]

\* init(heap_start, heap_size), called once
DoInit(start, size) ==
    /\ ~initialized
    /\ SetSelf(init(Self, start, size))
    /\ last' = [NoCall EXCEPT !.op = "init"]
    /\ UNCHANGED <<live, freed, sawNull, freedAfterNull, repeat, lockVars, fatVars>>

\* p = alloc(layout)
Alloc(layout) ==
    /\ Cardinality(live) < MaxLive
    /\ LET r == alloc(Self, layout)
       IN  /\ SetSelf(r.self)
           /\ AllocHistory(layout, r.res)
    /\ UNCHANGED <<repeat, lockVars, fatVars>>

\* dealloc(p, layout) of a live block with the layout it was allocated with
Dealloc(b) ==
    LET layout == Layout(b.size, b.align)
        idx == class_index_for(layout)
    IN  /\ SetSelf(dealloc(Self, b.addr, layout))
        /\ live' = live \ {b}
        /\ freed' = IF idx = NoClass THEN freed
                    ELSE [freed EXCEPT ![idx] = <<b.addr>> \o @]
        /\ freedAfterNull' = IF sawNull THEN freedAfterNull \cup {idx} ELSE freedAfterNull
        /\ last' = [NoCall EXCEPT !.op = "dealloc", !.size = b.size,
                                  !.align = b.align, !.ptr = b.addr,
                                  !.bump0 = bump, !.init0 = initialized]
        /\ UNCHANGED <<sawNull, repeat, lockVars, fatVars>>

\* dealloc(p, layout) with p null, or on an allocator never initialized
DeallocStray(ptr, layout) ==
    /\ ptr = NULL \/ ~initialized
    /\ SetSelf(dealloc(Self, ptr, layout))
    /\ last' = [NoCall EXCEPT !.op = "dealloc", !.size = layout.size,
                              !.align = layout.align, !.ptr = ptr,
                              !.bump0 = bump, !.init0 = initialized]
    /\ UNCHANGED <<live, freed, sawNull, freedAfterNull, repeat, lockVars, fatVars>>

(***************************************************************************)
(* A caller that, after init, allocates one layout over and over and never *)
(* deallocates.                                                            *)
(***************************************************************************)
\* the layouts repeated: size classes 256 to 4096, one of them with size
\* zero, a large one and a large one of size zero
RepeatLayouts ==
    {Layout(200, 8), Layout(0, 512), Layout(1000, 8), Layout(2048, 8),
     Layout(4096, 64), Layout(4097, 8), Layout(0, 8192)}

NoRepeat == [size |-> 0, align |-> 1, turn |-> 0]

\* repeat's next call: alloc(repeat)
RepeatAlloc ==
    /\ initialized
    /\ LET r == alloc(Self, Layout(repeat.size, repeat.align))
       IN  /\ SetSelf(r.self)
           /\ last' = [NoCall EXCEPT !.op = "alloc", !.size = repeat.size,
                                     !.align = repeat.align, !.ptr = r.res,
                                     !.bump0 = bump, !.init0 = initialized]
    /\ repeat' = [repeat EXCEPT !.turn = 1 - @]
    /\ UNCHANGED <<live, freed, sawNull, freedAfterNull, lockVars, fatVars>>

(***************************************************************************)
(* slaballoc/src/lib.rs : SpinLock, SpinLockGuard, LockedAlloc.            *)
(* Each thread calls init, alloc or dealloc on the shared LockedAlloc. A   *)
(* call spins in SpinLock::lock until its compare_exchange succeeds, runs  *)
(* the core method through the guard (it reads the allocator, then writes  *)
(* it back) and drops the guard.                                           *)
(***************************************************************************)
Threads == 1..NThreads

\* the region and the layouts the threads use: two chunks, and blocks of size
\* class 4096 (one per chunk) or large ones, so that allocations soon fail
LockHeap == <<CHUNK_SIZE, 2 * CHUNK_SIZE>>

LockLayouts == {Layout(4096, 64), Layout(4097, 8)}

NoReq == [op |-> "none", size |-> 0, align |-> 0, ptr |-> NULL]

\* AtomicBool::compare_exchange(current, new): whether it succeeded and the
\* value the flag holds afterwards
compare_exchange_always(flag, current, newval) == [ok |-> TRUE, flag |-> newval]

compare_exchange(flag, current, newval) ==
    IF flag = current THEN [ok |-> TRUE, flag |-> newval]
    ELSE [ok |-> FALSE, flag |-> flag]

\* Drop for SpinLockGuard: the value of the flag after locked.store(false)
guard_drop_forgotten(flag) == flag

guard_drop(flag) == FALSE

LockIdle ==
    /\ locked = FALSE
    /\ pc = [t \in Threads |-> "idle"]
    /\ call = [t \in Threads |-> NoReq]
    /\ seen = [t \in Threads |-> new]
    /\ ret = [t \in Threads |-> NULL]

\* a thread enters LockedAlloc::init, once per allocator
CallInit(t) ==
    /\ pc[t] = "idle"
    /\ ~initialized
    /\ \A u \in Threads : call[u].op # "init"
    /\ pc' = [pc EXCEPT ![t] = "lock"]
    /\ call' = [call EXCEPT ![t] = [NoReq EXCEPT !.op = "init"]]
    /\ UNCHANGED <<allocVars, histVars, repeat, fatVars, locked, seen, ret>>

\* a thread enters GlobalAlloc::alloc
CallAlloc(t, layout) ==
    /\ pc[t] = "idle"
    /\ pc' = [pc EXCEPT ![t] = "lock"]
    /\ call' = [call EXCEPT ![t] = [op |-> "alloc", size |-> layout.size,
                                    align |-> layout.align, ptr |-> NULL]]
    /\ UNCHANGED <<allocVars, histVars, repeat, fatVars, locked, seen, ret>>

\* a thread enters GlobalAlloc::dealloc with a live block, which from then on
\* is no one's to use
CallDealloc(t, b) ==
    /\ pc[t] = "idle"
    /\ pc' = [pc EXCEPT ![t] = "lock"]
    /\ call' = [call EXCEPT ![t] = [op |-> "dealloc", size |-> b.size,
                                    align |-> b.align, ptr |-> b.addr]]
    /\ live' = live \ {b}
    /\ UNCHANGED <<allocVars, freed, sawNull, freedAfterNull, last, repeat, fatVars,
                   locked, seen, ret>>

\* SpinLock::lock, one turn of the loop whose compare_exchange succeeds
Acquire(t) ==
    /\ pc[t] = "lock"
    /\ compare_exchange(locked, FALSE, TRUE).ok
    /\ locked' = compare_exchange(locked, FALSE, TRUE).flag
    /\ pc' = [pc EXCEPT ![t] = "guard"]
    /\ UNCHANGED <<allocVars, histVars, repeat, fatVars, call, seen, ret>>

\* SpinLock::lock, one turn of the loop that fails and calls cpu_relax
SpinWait(t) ==
    /\ pc[t] = "lock"
    /\ ~compare_exchange(locked, FALSE, TRUE).ok
    /\ locked' = compare_exchange(locked, FALSE, TRUE).flag
    /\ UNCHANGED <<allocVars, histVars, repeat, fatVars, pc, call, seen, ret>>

\* the guard is dereferenced: the core method starts on the allocator it reads
Enter(t) ==
    /\ pc[t] = "guard"
    /\ seen' = [seen EXCEPT ![t] = Self]
    /\ pc' = [pc EXCEPT ![t] = "core"]
    /\ UNCHANGED <<allocVars, histVars, repeat, fatVars, locked, call, ret>>

\* the core method finishes: g.init, g.alloc or g.dealloc writes the allocator
Run(t) ==
    /\ pc[t] = "core"
    /\ LET c == call[t]
           layout == Layout(c.size, c.align)
       IN  \/ /\ c.op = "init"
              /\ SetSelf(init(seen[t], LockHeap[1], LockHeap[2]))
              /\ ret' = [ret EXCEPT ![t] = NULL]
              /\ live' = live
           \/ /\ c.op = "alloc"
              /\ \E r \in {alloc(seen[t], layout)} :
                     /\ SetSelf(r.self)
                     /\ ret' = [ret EXCEPT ![t] = r.res]
                     /\ live' = IF r.res = NULL THEN live
                                ELSE live \cup {[addr |-> r.res, size |-> c.size,
                                                 align |-> c.align, n |-> t]}
           \/ /\ c.op = "dealloc"
              /\ SetSelf(dealloc(seen[t], c.ptr, layout))
              /\ ret' = [ret EXCEPT ![t] = NULL]
              /\ live' = live
    /\ pc' = [pc EXCEPT ![t] = "drop"]
    /\ UNCHANGED <<freed, sawNull, freedAfterNull, last, repeat, fatVars, locked, call, seen>>

\* the guard goes out of scope and the call returns
Release(t) ==
    /\ pc[t] = "drop"
    /\ locked' = guard_drop(locked)
    /\ pc' = [pc EXCEPT ![t] = "idle"]
    /\ call' = [call EXCEPT ![t] = NoReq]
    /\ seen' = [seen EXCEPT ![t] = new]
    /\ ret' = [ret EXCEPT ![t] = NULL]
    /\ UNCHANGED <<allocVars, histVars, repeat, fatVars>>

\* a thread inside the critical section calls a wrapper operation again, as
\* a panic handler that allocates would: it enters SpinLock::lock a second
\* time, its first guard still alive
Reenter(t) ==
    /\ pc[t] = "core"
    /\ pc' = [pc EXCEPT ![t] = "relock"]
    /\ UNCHANGED <<allocVars, histVars, repeat, fatVars, locked, call, seen, ret>>

\* a lock that lets the thread holding it in again
Relock_owner_passes(t) ==
    /\ pc[t] = "relock"
    /\ pc' = [pc EXCEPT ![t] = "nested"]
    /\ UNCHANGED <<allocVars, histVars, repeat, fatVars, locked, call, seen, ret>>

\* SpinLock::lock called by a thread that holds the lock, one turn of the
\* loop: the nested call goes on ("nested") if compare_exchange succeeds, and
\* calls cpu_relax and tries again if not
Relock(t) ==
    /\ pc[t] = "relock"
    /\ \E r \in {compare_exchange(locked, FALSE, TRUE)} :
           /\ locked' = r.flag
           /\ pc' = [pc EXCEPT ![t] = IF r.ok THEN "nested" ELSE "relock"]
    /\ UNCHANGED <<allocVars, histVars, repeat, fatVars, call, seen, ret>>

LockNext ==
    \E t \in Threads :
        \/ CallInit(t)
        \/ \E layout \in LockLayouts : CallAlloc(t, layout)
        \/ \E b \in live : CallDealloc(t, b)
        \/ Acquire(t)
        \/ SpinWait(t)
        \/ Enter(t)
        \/ Run(t)
        \/ Release(t)

(***************************************************************************)
(* The FAT32 engine (crate fat32): a volume in a byte buffer.              *)
(***************************************************************************)
\* FAT32_EOC, the value written to the last entry of a chain (0x0FFF_FFFF)
FAT32_EOC == 268435455

\* entries at or above this value end a chain (0x0FFF_FFF8)
EOC_MIN == 268435448

\* the number of clusters read_file and the directory scans follow at most
MAX_CHAIN == 4096

SLASH == 47

DOT == 46

SPACE == 32

\* disk[i], disk[a..b] and disk[off..off + len].copy_from_slice(bytes) on a
\* buffer indexed from 0
At(d, i) == d[i + 1]

Slice(d, a, b) == SubSeq(d, a + 1, b)

copy_from_slice(d, off, bytes) ==
    SubSeq(d, 1, off) \o bytes \o SubSeq(d, off + Len(bytes) + 1, Len(d))

Zeros(n) == [i \in 1..n |-> 0]

u16_from_le_bytes(d, off) == At(d, off) + 256 * At(d, off + 1)

u32_from_le_bytes(d, off) ==
    u16_from_le_bytes(d, off) + 65536 * u16_from_le_bytes(d, off + 2)

u16_to_le_bytes(v) == <<v % 256, (v \div 256) % 256>>

u32_to_le_bytes(v) ==
    <<v % 256, (v \div 256) % 256, (v \div 65536) % 256, (v \div 16777216) % 256>>

to_ascii_uppercase(ch) == IF ch >= 97 /\ ch <= 122 THEN ch - 32 ELSE ch

\* a comparison of names as they are written
normalize_name_exact(s) == s

normalize_name(s) == [i \in 1..Len(s) |-> to_ascii_uppercase(s[i])]

div_ceil(a, b) == IF b = 0 THEN 0 ELSE (a + b - 1) \div b

\* the fields parse_bpb reads from sector 0
NoBpb ==
    [bytes_per_sector |-> 0, sectors_per_cluster |-> 0, reserved_sectors |-> 0,
     num_fats |-> 0, sectors_per_fat |-> 0, root_cluster |-> 0]

\* the checks without the one on sectors_per_fat
parse_bpb_check_lax(p) ==
    IF p.bytes_per_sector = 0 \/ p.sectors_per_cluster = 0 \/ p.num_fats = 0
    THEN [err |-> "NotFat32", p |-> NoBpb]
    ELSE [err |-> "Ok", p |-> p]

parse_bpb_check(p) ==
    IF p.bytes_per_sector = 0 \/ p.sectors_per_cluster = 0 \/ p.num_fats = 0
    THEN [err |-> "NotFat32", p |-> NoBpb]
    ELSE IF p.sectors_per_fat = 0
    THEN [err |-> "NotFat32", p |-> NoBpb]
    ELSE [err |-> "Ok", p |-> p]

parse_bpb(d) ==
    IF Len(d) < 512
    THEN [err |-> "BufferTooSmall", p |-> NoBpb]
    ELSE parse_bpb_check([bytes_per_sector |-> u16_from_le_bytes(d, 11),
                          sectors_per_cluster |-> At(d, 13),
                          reserved_sectors |-> u16_from_le_bytes(d, 14),
                          num_fats |-> At(d, 16),
                          sectors_per_fat |-> u32_from_le_bytes(d, 36),
                          root_cluster |-> u32_from_le_bytes(d, 44)])

\* the view built from the parsed parameters, the `self` of the methods below
Fat32_view(d, r) ==
    [err |-> r.err,
     fs |-> [disk |-> d,
             bytes_per_sector |-> r.p.bytes_per_sector,
             sectors_per_cluster |-> r.p.sectors_per_cluster,
             reserved_sectors |-> r.p.reserved_sectors,
             num_fats |-> r.p.num_fats,
             sectors_per_fat |-> r.p.sectors_per_fat,
             root_cluster |-> r.p.root_cluster]]

\* Fat32::new and Fat32Mut::new
Fat32_new(d) == Fat32_view(d, parse_bpb(d))

WithDisk(self, d) == [self EXCEPT !.disk = d]

cluster_size(self) == self.bytes_per_sector * self.sectors_per_cluster

fat_start_byte(self) == self.reserved_sectors * self.bytes_per_sector

fat_bytes_len(self) == self.sectors_per_fat * self.bytes_per_sector

data_start_byte(self) ==
    fat_start_byte(self)
        + (self.num_fats * self.sectors_per_fat) * self.bytes_per_sector

cluster_to_offset(self, cluster) ==
    IF cluster < 2
    THEN [err |-> "InvalidCluster", off |-> 0]
    ELSE LET offset == data_start_byte(self) + (cluster - 2) * cluster_size(self)
         IN  IF offset >= Len(self.disk)
             THEN [err |-> "OutOfBounds", off |-> 0]
             ELSE [err |-> "Ok", off |-> offset]

read_cluster_check(self, o) ==
    IF o.err # "Ok"
    THEN o
    ELSE IF o.off + cluster_size(self) > Len(self.disk)
    THEN [err |-> "OutOfBounds", off |-> 0]
    ELSE o

\* the cluster's bytes are disk[off .. off + cluster_size]
read_cluster(self, cluster) == read_cluster_check(self, cluster_to_offset(self, cluster))

\* the entry's low 28 bits (val & 0x0FFF_FFFF)
read_fat_entry(self, cluster) ==
    LET entry_offset == fat_start_byte(self) + cluster * 4
    IN  IF entry_offset + 4 > Len(self.disk)
        THEN [err |-> "OutOfBounds", val |-> 0]
        ELSE [err |-> "Ok",
              val |-> u16_from_le_bytes(self.disk, entry_offset)
                        + 65536 * At(self.disk, entry_offset + 2)
                        + 16777216 * (At(self.disk, entry_offset + 3) % 16)]

RECURSIVE follow_chain_loop(_, _, _, _)
\* one turn of the loop, next being the entry read for current
follow_chain_next(self, current, left, chain, next) ==
    IF next.err # "Ok"
    THEN [err |-> next.err, chain |-> <<>>]
    ELSE IF next.val >= EOC_MIN
    THEN [err |-> "Ok", chain |-> Append(chain, current)]
    ELSE IF next.val < 2
    THEN [err |-> "InvalidCluster", chain |-> <<>>]
    ELSE follow_chain_loop(self, next.val, left - 1, Append(chain, current))

follow_chain_loop(self, current, left, chain) ==
    IF left = 0
    THEN [err |-> "Ok", chain |-> chain]
    ELSE follow_chain_next(self, current, left, chain, read_fat_entry(self, current))

follow_chain(self, start_cluster, max_clusters) ==
    IF start_cluster < 2
    THEN [err |-> "InvalidCluster", chain |-> <<>>]
    ELSE follow_chain_loop(self, start_cluster, max_clusters, <<>>)

Attributes_from_byte(b) ==
    [read_only |-> b % 2 = 1,
     hidden |-> (b \div 2) % 2 = 1,
     system |-> (b \div 4) % 2 = 1,
     volume_id |-> (b \div 8) % 2 = 1,
     directory |-> (b \div 16) % 2 = 1,
     archive |-> (b \div 32) % 2 = 1]

\* `end` after the loop `while end > 0 && bytes[end - 1] == b' '`
RECURSIVE decode_ascii_trim_end(_, _)
decode_ascii_trim_end(bytes, end) ==
    IF end > 0 /\ bytes[end] = SPACE
    THEN decode_ascii_trim_end(bytes, end - 1)
    ELSE end

decode_ascii_trim(bytes) == SubSeq(bytes, 1, decode_ascii_trim_end(bytes, Len(bytes)))

NoEntry ==
    [some |-> FALSE, name |-> <<>>, attrs |-> Attributes_from_byte(0),
     first_cluster |-> 0, size |-> 0]

DirEntry_named(entry, attrs, name, ext) ==
    IF attrs.volume_id
    THEN NoEntry
    ELSE [some |-> TRUE,
          name |-> IF ext # <<>> THEN name \o <<DOT>> \o ext ELSE name,
          attrs |-> attrs,
          first_cluster |-> u16_from_le_bytes(entry, 20) * 65536
                              + u16_from_le_bytes(entry, 26),
          size |-> u32_from_le_bytes(entry, 28)]

\* DirEntry::parse on the 32 bytes of a directory slot
DirEntry_parse(entry) ==
    IF Len(entry) < 32
    THEN NoEntry
    ELSE IF At(entry, 0) = 0 \/ At(entry, 0) = 229
    THEN NoEntry
    ELSE DirEntry_named(entry, Attributes_from_byte(At(entry, 11)),
                        decode_ascii_trim(Slice(entry, 0, 8)),
                        decode_ascii_trim(Slice(entry, 8, 11)))

is_dir(e) == e.attrs.directory

is_file(e) == ~e.attrs.directory

\* the scan of list_dir_cluster: slot i of cluster ci of the chain
RECURSIVE list_dir_scan(_, _, _, _, _)
\* entries.push(e) when DirEntry::parse gives Some(e)
push_parsed(entries, e) == IF e.some THEN Append(entries, e) ELSE entries

\* a 0x00 that ends the cluster it is in, not the directory
list_dir_chunk_local(self, chain, ci, i, entries, chunk) ==
    IF At(chunk, 0) = 0
    THEN list_dir_scan(self, chain, ci + 1, 0, entries)
    ELSE list_dir_scan(self, chain, ci, i + 1, push_parsed(entries, DirEntry_parse(chunk)))

list_dir_chunk(self, chain, ci, i, entries, chunk) ==
    IF At(chunk, 0) = 0
    THEN [err |-> "Ok", entries |-> entries]
    ELSE list_dir_scan(self, chain, ci, i + 1, push_parsed(entries, DirEntry_parse(chunk)))

list_dir_data(self, chain, ci, i, entries, data) ==
    IF data.err # "Ok"
    THEN [err |-> data.err, entries |-> <<>>]
    ELSE IF i * 32 + 32 > cluster_size(self)
    THEN list_dir_scan(self, chain, ci + 1, 0, entries)
    ELSE list_dir_chunk(self, chain, ci, i, entries,
                        Slice(self.disk, data.off + i * 32, data.off + i * 32 + 32))

list_dir_scan(self, chain, ci, i, entries) ==
    IF ci > Len(chain)
    THEN [err |-> "Ok", entries |-> entries]
    ELSE list_dir_data(self, chain, ci, i, entries, read_cluster(self, chain[ci]))

list_dir_chain(self, chain) ==
    IF chain.err # "Ok"
    THEN [err |-> chain.err, entries |-> <<>>]
    ELSE list_dir_scan(self, chain.chain, 1, 0, <<>>)

list_dir_cluster(self, start_cluster) ==
    list_dir_chain(self, follow_chain(self, start_cluster, MAX_CHAIN))

starts_with_slash(path) == Len(path) > 0 /\ path[1] = SLASH

\* path.split('/').filter(|s| !s.is_empty())
RECURSIVE split_path(_, _, _)
split_path(path, i, part) ==
    IF i > Len(path)
    THEN (IF part = <<>> THEN <<>> ELSE <<part>>)
    ELSE IF path[i] = SLASH
    THEN (IF part = <<>> THEN <<>> ELSE <<part>>) \o split_path(path, i + 1, <<>>)
    ELSE split_path(path, i + 1, Append(part, path[i]))

\* the index of the first entry whose normalized name is target, 0 if none
first_match(entries, target) ==
    LET hits == {n \in 1..Len(entries) : normalize_name(entries[n].name) = target}
    IN  IF hits = {} THEN 0 ELSE CHOOSE n \in hits : \A m \in hits : n <= m

RECURSIVE open_path_loop(_, _, _, _, _)
open_path_found(self, parts, k, entries, n) ==
    IF n = 0
    THEN [err |-> "Ok", entry |-> NoEntry]
    ELSE open_path_loop(self, parts, k + 1, entries[n].first_cluster, entries[n])

open_path_listed(self, parts, k, listed) ==
    IF listed.err # "Ok"
    THEN [err |-> listed.err, entry |-> NoEntry]
    ELSE open_path_found(self, parts, k, listed.entries,
                         first_match(listed.entries, normalize_name(parts[k])))

open_path_loop(self, parts, k, current_cluster, last_entry) ==
    IF k > Len(parts)
    THEN [err |-> "Ok", entry |-> last_entry]
    ELSE open_path_listed(self, parts, k, list_dir_cluster(self, current_cluster))

\* Ok(None) is an entry with some = FALSE
open_path(self, path) ==
    IF ~starts_with_slash(path)
    THEN [err |-> "Other", entry |-> NoEntry]
    ELSE IF path = <<SLASH>>
    THEN [err |-> "Ok", entry |-> NoEntry]
    ELSE open_path_loop(self, split_path(path, 1, <<>>), 1, self.root_cluster, NoEntry)

list_root(self) == list_dir_cluster(self, self.root_cluster)

\* a listing that takes a file's clusters for a directory
list_dir_opened_any(self, opened) ==
    IF opened.err # "Ok"
    THEN [err |-> opened.err, entries |-> <<>>]
    ELSE IF ~opened.entry.some
    THEN [err |-> "PathNotFound", entries |-> <<>>]
    ELSE list_dir_cluster(self, opened.entry.first_cluster)

list_dir_opened(self, opened) ==
    IF opened.err # "Ok"
    THEN [err |-> opened.err, entries |-> <<>>]
    ELSE IF ~opened.entry.some
    THEN [err |-> "PathNotFound", entries |-> <<>>]
    ELSE IF ~is_dir(opened.entry)
    THEN [err |-> "NotADirectory", entries |-> <<>>]
    ELSE list_dir_cluster(self, opened.entry.first_cluster)

list_dir_path(self, path) ==
    IF path = <<SLASH>>
    THEN list_root(self)
    ELSE list_dir_opened(self, open_path(self, path))

RECURSIVE read_file_loop(_, _, _, _, _)
read_file_cluster(self, chain, k, remaining, out, cluster, take) ==
    IF cluster.err # "Ok"
    THEN [err |-> cluster.err, bytes |-> <<>>]
    ELSE IF remaining - take = 0
    THEN [err |-> "Ok", bytes |-> out \o Slice(self.disk, cluster.off, cluster.off + take)]
    ELSE read_file_loop(self, chain, k + 1, remaining - take,
                        out \o Slice(self.disk, cluster.off, cluster.off + take))

read_file_loop(self, chain, k, remaining, out) ==
    IF k > Len(chain)
    THEN [err |-> "Ok", bytes |-> out]
    ELSE read_file_cluster(self, chain, k, remaining, out, read_cluster(self, chain[k]),
                           Min(remaining, cluster_size(self)))

read_file_chain(self, entry, chain) ==
    IF chain.err # "Ok"
    THEN [err |-> chain.err, bytes |-> <<>>]
    ELSE read_file_loop(self, chain.chain, 1, entry.size, <<>>)

read_file(self, entry) ==
    IF ~is_file(entry)
    THEN [err |-> "NotAFile", bytes |-> <<>>]
    ELSE IF entry.size = 0
    THEN [err |-> "Ok", bytes |-> <<>>]
    ELSE IF entry.first_cluster < 2
    THEN [err |-> "InvalidCluster", bytes |-> <<>>]
    ELSE read_file_chain(self, entry, follow_chain(self, entry.first_cluster, MAX_CHAIN))

\* Ok(Some(bytes)) of a read that returned r
some_bytes(r) == [err |-> r.err, some |-> r.err = "Ok", bytes |-> r.bytes]

read_file_opened(self, opened) ==
    IF opened.err # "Ok"
    THEN [err |-> opened.err, some |-> FALSE, bytes |-> <<>>]
    ELSE IF ~opened.entry.some
    THEN [err |-> "Ok", some |-> FALSE, bytes |-> <<>>]
    ELSE IF ~is_file(opened.entry)
    THEN [err |-> "NotAFile", some |-> FALSE, bytes |-> <<>>]
    ELSE some_bytes(read_file(self, opened.entry))

\* Ok(None) is some = FALSE
read_file_by_path(self, path) == read_file_opened(self, open_path(self, path))

max_cluster_number(self) ==
    LET data_start == data_start_byte(self)
        cs == cluster_size(self)
        data_clusters == (Len(self.disk) - data_start) \div cs
        fat_entries == fat_bytes_len(self) \div 4
    IN  IF data_start >= Len(self.disk)
        THEN [err |-> "OutOfBounds", val |-> 0]
        ELSE IF cs = 0
        THEN [err |-> "NotFat32", val |-> 0]
        ELSE IF data_clusters = 0
        THEN [err |-> "NotFat32", val |-> 0]
        ELSE IF fat_entries < 3
        THEN [err |-> "NotFat32", val |-> 0]
        ELSE [err |-> "Ok", val |-> Min(2 + data_clusters - 1, fat_entries - 1)]

\* the copies written before a copy falls outside the buffer stay written
RECURSIVE write_fat_entry_loop(_, _, _, _)
write_fat_entry_copy(self, cluster, bytes, i, off) ==
    IF off + 4 > Len(self.disk)
    THEN [err |-> "OutOfBounds", disk |-> self.disk]
    ELSE write_fat_entry_loop(WithDisk(self, copy_from_slice(self.disk, off, bytes)),
                              cluster, bytes, i + 1)

write_fat_entry_loop(self, cluster, bytes, i) ==
    IF i >= self.num_fats
    THEN [err |-> "Ok", disk |-> self.disk]
    ELSE write_fat_entry_copy(self, cluster, bytes, i,
                              fat_start_byte(self) + i * fat_bytes_len(self) + cluster * 4)

\* a write that reaches the first FAT copy only
write_fat_entry_first_copy(self, cluster, value) ==
    write_fat_entry_loop([self EXCEPT !.num_fats = 1], cluster,
                         u32_to_le_bytes(value % (FAT32_EOC + 1)), 0)

write_fat_entry_all(self, cluster, value) ==
    write_fat_entry_loop(self, cluster, u32_to_le_bytes(value % (FAT32_EOC + 1)), 0)

RECURSIVE free_chain_loop(_, _, _)
free_chain_written(self, chain, k, w) ==
    IF w.err # "Ok"
    THEN w
    ELSE free_chain_loop(WithDisk(self, w.disk), chain, k + 1)

free_chain_loop(self, chain, k) ==
    IF k > Len(chain)
    THEN [err |-> "Ok", disk |-> self.disk]
    ELSE free_chain_written(self, chain, k, write_fat_entry_all(self, chain[k], 0))

free_chain_followed(self, chain) ==
    IF chain.err # "Ok"
    THEN [err |-> chain.err, disk |-> self.disk]
    ELSE free_chain_loop(self, chain.chain, 1)

free_chain(self, start_cluster) ==
    IF start_cluster < 2
    THEN [err |-> "Ok", disk |-> self.disk]
    ELSE free_chain_followed(self, follow_chain(self, start_cluster, MAX_CHAIN))

\* the scan of alloc_chain for entries equal to 0, from cluster cl on
RECURSIVE alloc_chain_scan(_, _, _, _, _)
\* a scan that takes every cluster, free or not
alloc_chain_entry_any(self, cl, max_cl, needed, found, e) ==
    IF e.err # "Ok"
    THEN [err |-> e.err, found |-> <<>>]
    ELSE IF Len(found) + 1 = needed
    THEN [err |-> "Ok", found |-> Append(found, cl)]
    ELSE alloc_chain_scan(self, cl + 1, max_cl, needed, Append(found, cl))

alloc_chain_entry(self, cl, max_cl, needed, found, e) ==
    IF e.err # "Ok"
    THEN [err |-> e.err, found |-> <<>>]
    ELSE IF e.val # 0
    THEN alloc_chain_scan(self, cl + 1, max_cl, needed, found)
    ELSE IF Len(found) + 1 = needed
    THEN [err |-> "Ok", found |-> Append(found, cl)]
    ELSE alloc_chain_scan(self, cl + 1, max_cl, needed, Append(found, cl))

alloc_chain_scan(self, cl, max_cl, needed, found) ==
    IF cl > max_cl
    THEN [err |-> "Ok", found |-> found]
    ELSE alloc_chain_entry(self, cl, max_cl, needed, found, read_fat_entry(self, cl))

\* cl[i] -> cl[i+1], the last one -> EOC
RECURSIVE alloc_chain_link(_, _, _)
alloc_chain_linked(self, found, i, w) ==
    IF w.err # "Ok"
    THEN w
    ELSE alloc_chain_link(WithDisk(self, w.disk), found, i + 1)

alloc_chain_link(self, found, i) ==
    IF i > Len(found)
    THEN [err |-> "Ok", disk |-> self.disk]
    ELSE alloc_chain_linked(self, found, i,
                            write_fat_entry_all(self, found[i],
                                                IF i + 1 <= Len(found)
                                                THEN found[i + 1]
                                                ELSE FAT32_EOC))

alloc_chain_chained(found, linked) ==
    [err |-> linked.err, disk |-> linked.disk, chain |-> found]

\* the clusters found are linked before they are counted
alloc_chain_found_marked(self, needed, scan) ==
    IF scan.err # "Ok"
    THEN [err |-> scan.err, disk |-> self.disk, chain |-> <<>>]
    ELSE IF Len(scan.found) # needed
    THEN [err |-> "NoSpaceLeft", disk |-> alloc_chain_link(self, scan.found, 1).disk,
          chain |-> <<>>]
    ELSE alloc_chain_chained(scan.found, alloc_chain_link(self, scan.found, 1))

alloc_chain_found(self, needed, scan) ==
    IF scan.err # "Ok"
    THEN [err |-> scan.err, disk |-> self.disk, chain |-> <<>>]
    ELSE IF Len(scan.found) # needed
    THEN [err |-> "NoSpaceLeft", disk |-> self.disk, chain |-> <<>>]
    ELSE alloc_chain_chained(scan.found, alloc_chain_link(self, scan.found, 1))

\* a scan that starts at cluster 4
alloc_chain_upto_late(self, needed, max_cl) ==
    IF max_cl.err # "Ok"
    THEN [err |-> max_cl.err, disk |-> self.disk, chain |-> <<>>]
    ELSE alloc_chain_found(self, needed, alloc_chain_scan(self, 4, max_cl.val, needed, <<>>))

alloc_chain_upto(self, needed, max_cl) ==
    IF max_cl.err # "Ok"
    THEN [err |-> max_cl.err, disk |-> self.disk, chain |-> <<>>]
    ELSE alloc_chain_found(self, needed, alloc_chain_scan(self, 2, max_cl.val, needed, <<>>))

alloc_chain(self, needed) ==
    IF needed = 0
    THEN [err |-> "Ok", disk |-> self.disk, chain |-> <<>>]
    ELSE alloc_chain_upto(self, needed, max_cluster_number(self))

RECURSIVE write_chain_data_loop(_, _, _, _)
\* the chunk of content for the cluster at offset o, zeros after it
write_chain_data_chunk(self, chain, content, k, o, chunk) ==
    IF o.err # "Ok"
    THEN [err |-> o.err, disk |-> self.disk]
    ELSE IF o.off + cluster_size(self) > Len(self.disk)
    THEN [err |-> "OutOfBounds", disk |-> self.disk]
    ELSE IF (k - 1) * cluster_size(self) + Len(chunk) >= Len(content)
    THEN [err |-> "Ok",
          disk |-> copy_from_slice(self.disk, o.off,
                                   chunk \o Zeros(cluster_size(self) - Len(chunk)))]
    ELSE write_chain_data_loop(
             WithDisk(self, copy_from_slice(self.disk, o.off,
                                            chunk \o Zeros(cluster_size(self) - Len(chunk)))),
             chain, content, k + 1)

write_chain_data_loop(self, chain, content, k) ==
    IF k > Len(chain)
    THEN [err |-> "Ok", disk |-> self.disk]
    ELSE write_chain_data_chunk(self, chain, content, k,
                                cluster_to_offset(self, chain[k]),
                                SubSeq(content, (k - 1) * cluster_size(self) + 1,
                                       Min(k * cluster_size(self), Len(content))))

write_chain_data(self, chain, content) == write_chain_data_loop(self, chain, content, 1)

\* found: Some(offset); entry.some: the slot parsed (DirEntry::parse is None
\* for a volume label)
RECURSIVE find_dir_entry_scan(_, _, _, _, _, _)
\* a scan that matches no slot
find_dir_entry_chunk_blind(self, chain, ci, i, name_raw, ext_raw, abs_off, chunk) ==
    IF At(chunk, 0) = 0
    THEN [err |-> "Ok", found |-> FALSE, off |-> 0, entry |-> NoEntry]
    ELSE find_dir_entry_scan(self, chain, ci, i + 1, name_raw, ext_raw)

find_dir_entry_chunk(self, chain, ci, i, name_raw, ext_raw, abs_off, chunk) ==
    IF At(chunk, 0) = 0
    THEN [err |-> "Ok", found |-> FALSE, off |-> 0, entry |-> NoEntry]
    ELSE IF At(chunk, 0) = 229
    THEN find_dir_entry_scan(self, chain, ci, i + 1, name_raw, ext_raw)
    ELSE IF Slice(chunk, 0, 8) = name_raw /\ Slice(chunk, 8, 11) = ext_raw
    THEN [err |-> "Ok", found |-> TRUE, off |-> abs_off, entry |-> DirEntry_parse(chunk)]
    ELSE find_dir_entry_scan(self, chain, ci, i + 1, name_raw, ext_raw)

find_dir_entry_cluster(self, chain, ci, i, name_raw, ext_raw, o) ==
    IF o.err # "Ok"
    THEN [err |-> o.err, found |-> FALSE, off |-> 0, entry |-> NoEntry]
    ELSE IF o.off + cluster_size(self) > Len(self.disk)
    THEN [err |-> "OutOfBounds", found |-> FALSE, off |-> 0, entry |-> NoEntry]
    ELSE IF i * 32 + 32 > cluster_size(self)
    THEN find_dir_entry_scan(self, chain, ci + 1, 0, name_raw, ext_raw)
    ELSE find_dir_entry_chunk(self, chain, ci, i, name_raw, ext_raw, o.off + i * 32,
                              Slice(self.disk, o.off + i * 32, o.off + i * 32 + 32))

find_dir_entry_scan(self, chain, ci, i, name_raw, ext_raw) ==
    IF ci > Len(chain)
    THEN [err |-> "Ok", found |-> FALSE, off |-> 0, entry |-> NoEntry]
    ELSE find_dir_entry_cluster(self, chain, ci, i, name_raw, ext_raw,
                                cluster_to_offset(self, chain[ci]))

find_dir_entry_chain(self, chain, name_raw, ext_raw) ==
    IF chain.err # "Ok"
    THEN [err |-> chain.err, found |-> FALSE, off |-> 0, entry |-> NoEntry]
    ELSE find_dir_entry_scan(self, chain.chain, 1, 0, name_raw, ext_raw)

find_dir_entry_offset_by_short_name(self, dir_cluster, name_raw, ext_raw) ==
    find_dir_entry_chain(self, follow_chain(self, dir_cluster, MAX_CHAIN), name_raw, ext_raw)

RECURSIVE find_free_slot_scan(_, _, _, _)
find_free_slot_cluster(self, chain, ci, i, o) ==
    IF o.err # "Ok"
    THEN [err |-> o.err, off |-> 0, was_end_marker |-> FALSE, cluster_end |-> 0]
    ELSE IF o.off + cluster_size(self) > Len(self.disk)
    THEN [err |-> "OutOfBounds", off |-> 0, was_end_marker |-> FALSE, cluster_end |-> 0]
    ELSE IF i * 32 + 32 > cluster_size(self)
    THEN find_free_slot_scan(self, chain, ci + 1, 0)
    ELSE IF At(self.disk, o.off + i * 32) = 0
    THEN [err |-> "Ok", off |-> o.off + i * 32, was_end_marker |-> TRUE,
          cluster_end |-> o.off + cluster_size(self)]
    ELSE IF At(self.disk, o.off + i * 32) = 229
    THEN [err |-> "Ok", off |-> o.off + i * 32, was_end_marker |-> FALSE,
          cluster_end |-> o.off + cluster_size(self)]
    ELSE find_free_slot_scan(self, chain, ci, i + 1)

find_free_slot_scan(self, chain, ci, i) ==
    IF ci > Len(chain)
    THEN [err |-> "NoSpaceLeft", off |-> 0, was_end_marker |-> FALSE, cluster_end |-> 0]
    ELSE find_free_slot_cluster(self, chain, ci, i, cluster_to_offset(self, chain[ci]))

find_free_slot_chain(self, chain) ==
    IF chain.err # "Ok"
    THEN [err |-> chain.err, off |-> 0, was_end_marker |-> FALSE, cluster_end |-> 0]
    ELSE find_free_slot_scan(self, chain.chain, 1, 0)

find_free_dir_entry_slot(self, dir_cluster) ==
    find_free_slot_chain(self, follow_chain(self, dir_cluster, MAX_CHAIN))

\* the 32 bytes of a short entry
dir_entry_bytes(name_raw, ext_raw, attr, first_cluster, size) ==
    name_raw \o ext_raw \o <<attr>> \o Zeros(8)
        \o u16_to_le_bytes(first_cluster \div 65536) \o Zeros(4)
        \o u16_to_le_bytes(first_cluster % 65536) \o u32_to_le_bytes(size)

write_dir_entry_at_offset(self, offset, name_raw, ext_raw, first_cluster, size) ==
    IF offset + 32 > Len(self.disk)
    THEN [err |-> "OutOfBounds", disk |-> self.disk]
    ELSE [err |-> "Ok",
          disk |-> copy_from_slice(self.disk, offset,
                                   dir_entry_bytes(name_raw, ext_raw, 32, first_cluster, size))]

RECURSIVE trim_end_slashes(_)
trim_end_slashes(path) ==
    IF Len(path) > 0 /\ path[Len(path)] = SLASH
    THEN trim_end_slashes(SubSeq(path, 1, Len(path) - 1))
    ELSE path

\* the position (from 1) of the last ch in s, 0 when there is none
rfind(s, ch) ==
    LET hits == {i \in 1..Len(s) : s[i] = ch}
    IN  IF hits = {} THEN 0 ELSE CHOOSE i \in hits : \A j \in hits : j <= i

split_parent_at(p, idx) ==
    IF p = <<SLASH>> \/ idx = 0
    THEN [err |-> "Other", parent |-> <<>>, name |-> <<>>]
    ELSE IF SubSeq(p, idx + 1, Len(p)) = <<>>
    THEN [err |-> "Other", parent |-> <<>>, name |-> <<>>]
    ELSE [err |-> "Ok",
          parent |-> IF idx = 1 THEN <<SLASH>> ELSE SubSeq(p, 1, idx - 1),
          name |-> SubSeq(p, idx + 1, Len(p))]

split_parent_trimmed(p) == split_parent_at(p, rfind(p, SLASH))

split_parent(path) == split_parent_trimmed(trim_end_slashes(path))

\* a byte of a name that encode_short_name_8_3 refuses
refused(s) == \E i \in 1..Len(s) : s[i] > 127 \/ s[i] = SLASH

\* the bytes of s in upper case, then spaces up to n bytes
padded(s, n) == [i \in 1..n |-> IF i <= Len(s) THEN to_ascii_uppercase(s[i]) ELSE SPACE]

\* an encoding that lets a second dot through
encode_base_ext_dotted(base, ext) ==
    IF base = <<>> \/ Len(base) > 8 \/ Len(ext) > 3
    THEN [err |-> "InvalidName", name |-> <<>>, ext |-> <<>>]
    ELSE IF refused(base) \/ refused(ext)
    THEN [err |-> "InvalidName", name |-> <<>>, ext |-> <<>>]
    ELSE [err |-> "Ok", name |-> padded(base, 8), ext |-> padded(ext, 3)]

encode_base_ext(base, ext) ==
    IF base = <<>> \/ Len(base) > 8 \/ Len(ext) > 3
    THEN [err |-> "InvalidName", name |-> <<>>, ext |-> <<>>]
    ELSE IF rfind(base, DOT) # 0 \/ rfind(ext, DOT) # 0
    THEN [err |-> "InvalidName", name |-> <<>>, ext |-> <<>>]
    ELSE IF refused(base) \/ refused(ext)
    THEN [err |-> "InvalidName", name |-> <<>>, ext |-> <<>>]
    ELSE [err |-> "Ok", name |-> padded(base, 8), ext |-> padded(ext, 3)]

encode_split_at(name, dot) ==
    IF dot = 0
    THEN encode_base_ext(name, <<>>)
    ELSE encode_base_ext(SubSeq(name, 1, dot - 1), SubSeq(name, dot + 1, Len(name)))

encode_short_name_8_3(name) == encode_split_at(name, rfind(name, DOT))

\* write_file_by_path, from its last step to its first; each step returns
\* the image as the call leaves it, on an error too

\* no 0x00 after the new entry
write_end_marker_never(slot, wrote) == wrote

\* the 0x00 put in the slot before the new entry
write_end_marker_before(slot, wrote) ==
    IF wrote.err # "Ok"
    THEN wrote
    ELSE IF slot.was_end_marker /\ slot.off + 32 < slot.cluster_end
    THEN [err |-> "Ok", disk |-> copy_from_slice(wrote.disk, slot.off - 32, <<0>>)]
    ELSE wrote

\* a 0x00 after the new entry when the entry replaced the end marker
write_end_marker(slot, wrote) ==
    IF wrote.err # "Ok"
    THEN wrote
    ELSE IF slot.was_end_marker /\ slot.off + 32 < slot.cluster_end
    THEN [err |-> "Ok", disk |-> copy_from_slice(wrote.disk, slot.off + 32, <<0>>)]
    ELSE wrote

\* existing_off is None: the entry goes to a free slot of the parent
write_new_entry(self, content, enc, first_cluster, slot) ==
    IF slot.err # "Ok"
    THEN [err |-> slot.err, disk |-> self.disk]
    ELSE write_end_marker(slot,
                          write_dir_entry_at_offset(self, slot.off, enc.name, enc.ext,
                                                    first_cluster, Len(content)))

\* the directory entry is written or updated
write_entry(self, content, enc, parent_cluster, existing, first_cluster) ==
    IF existing.found
    THEN write_dir_entry_at_offset(self, existing.off, enc.name, enc.ext, first_cluster,
                                   Len(content))
    ELSE write_new_entry(self, content, enc, first_cluster,
                         find_free_dir_entry_slot(self, parent_cluster))

write_stored(self, content, enc, parent_cluster, existing, first_cluster, data) ==
    IF data.err # "Ok"
    THEN data
    ELSE write_entry(WithDisk(self, data.disk), content, enc, parent_cluster, existing,
                     first_cluster)

write_allocated(self, content, enc, parent_cluster, existing, chain) ==
    IF chain.err # "Ok"
    THEN [err |-> chain.err, disk |-> chain.disk]
    ELSE write_stored(self, content, enc, parent_cluster, existing, chain.chain[1],
                      write_chain_data(WithDisk(self, chain.disk), chain.chain, content))

\* the clusters the content needs are allocated and filled
write_released(self, content, enc, parent_cluster, existing, released) ==
    IF released.err # "Ok"
    THEN released
    ELSE IF content = <<>>
    THEN write_entry(WithDisk(self, released.disk), content, enc, parent_cluster,
                     existing, 0)
    ELSE write_allocated(self, content, enc, parent_cluster, existing,
                         alloc_chain(WithDisk(self, released.disk),
                                     div_ceil(Len(content), cluster_size(self))))

\* the old chain freed before the entry is looked at
write_existing_released(self, content, enc, parent_cluster, existing) ==
    IF existing.err # "Ok"
    THEN [err |-> existing.err, disk |-> self.disk]
    ELSE IF existing.entry.some /\ is_dir(existing.entry)
    THEN [err |-> "NotAFile", disk |-> free_chain(self, existing.entry.first_cluster).disk]
    ELSE IF existing.entry.some /\ existing.entry.first_cluster >= 2
    THEN write_released(self, content, enc, parent_cluster, existing,
                        free_chain(self, existing.entry.first_cluster))
    ELSE write_released(self, content, enc, parent_cluster, existing,
                        [err |-> "Ok", disk |-> self.disk])

\* a directory overwritten as a file is
write_existing_any(self, content, enc, parent_cluster, existing) ==
    IF existing.err # "Ok"
    THEN [err |-> existing.err, disk |-> self.disk]
    ELSE IF existing.entry.some /\ existing.entry.first_cluster >= 2
    THEN write_released(self, content, enc, parent_cluster, existing,
                        free_chain(self, existing.entry.first_cluster))
    ELSE write_released(self, content, enc, parent_cluster, existing,
                        [err |-> "Ok", disk |-> self.disk])

\* overwrite: the old chain is freed
write_existing(self, content, enc, parent_cluster, existing) ==
    IF existing.err # "Ok"
    THEN [err |-> existing.err, disk |-> self.disk]
    ELSE IF existing.entry.some /\ is_dir(existing.entry)
    THEN [err |-> "NotAFile", disk |-> self.disk]
    ELSE IF existing.entry.some /\ existing.entry.first_cluster >= 2
    THEN write_released(self, content, enc, parent_cluster, existing,
                        free_chain(self, existing.entry.first_cluster))
    ELSE write_released(self, content, enc, parent_cluster, existing,
                        [err |-> "Ok", disk |-> self.disk])

write_in_dir(self, content, enc, parent_cluster) ==
    write_existing(self, content, enc, parent_cluster,
                   find_dir_entry_offset_by_short_name(self, parent_cluster,
                                                       enc.name, enc.ext))

write_in_parent(self, content, enc, parent) ==
    IF parent.err # "Ok"
    THEN [err |-> parent.err, disk |-> self.disk]
    ELSE IF ~parent.entry.some
    THEN [err |-> "PathNotFound", disk |-> self.disk]
    ELSE IF ~is_dir(parent.entry)
    THEN [err |-> "NotADirectory", disk |-> self.disk]
    ELSE write_in_dir(self, content, enc, parent.entry.first_cluster)

write_named(self, content, parent_path, enc) ==
    IF enc.err # "Ok"
    THEN [err |-> enc.err, disk |-> self.disk]
    ELSE IF parent_path = <<SLASH>>
    THEN write_in_dir(self, content, enc, self.root_cluster)
    ELSE write_in_parent(self, content, enc, open_path(self, parent_path))

write_split(self, content, sp) ==
    IF sp.err # "Ok"
    THEN [err |-> sp.err, disk |-> self.disk]
    ELSE write_named(self, content, sp.parent, encode_short_name_8_3(sp.name))

write_file_by_path(self, path, content) ==
    IF ~starts_with_slash(path) \/ path = <<SLASH>>
    THEN [err |-> "Other", disk |-> self.disk]
    ELSE write_split(self, content, split_parent(path))

(***************************************************************************)
(* A call that follows a cluster chain, one turn of its loop at a time:    *)
(* read_file, list_dir_cluster and free_chain. pc is "idle" (no call),     *)
(* "follow" (in the loop of follow_chain), "followed" (the chain is        *)
(* returned, the clusters are being processed) or "done" (the call has     *)
(* returned err, with bytes or entries).                                   *)
(***************************************************************************)
NoWalk ==
    [op |-> "none", pc |-> "idle", entry |-> NoEntry, current |-> 0, left |-> 0,
     chain |-> <<>>, k |-> 0, err |-> "Ok", bytes |-> <<>>, entries |-> <<>>]

walk_returns(w, err) == [w EXCEPT !.pc = "done", !.err = err]

\* follow_chain up to its loop
follow_chain_begin(w, start_cluster, max_clusters) ==
    IF start_cluster < 2
    THEN walk_returns(w, "InvalidCluster")
    ELSE [w EXCEPT !.pc = "follow", !.current = start_cluster, !.left = max_clusters]

\* a turn that neither counts nor records the cluster it visits
follow_chain_turn_uncounted(w, next) ==
    IF w.left = 0
    THEN [w EXCEPT !.pc = "followed", !.k = 1]
    ELSE IF next.err # "Ok"
    THEN walk_returns(w, next.err)
    ELSE IF next.val >= EOC_MIN
    THEN [w EXCEPT !.pc = "followed", !.k = 1, !.chain = Append(w.chain, w.current)]
    ELSE IF next.val < 2
    THEN walk_returns(w, "InvalidCluster")
    ELSE [w EXCEPT !.current = next.val]

\* one turn of `for _ in 0..max_clusters`, next being the FAT entry of the
\* current cluster; the loop is over when no turn is left
follow_chain_turn(w, next) ==
    IF w.left = 0
    THEN [w EXCEPT !.pc = "followed", !.k = 1]
    ELSE IF next.err # "Ok"
    THEN walk_returns(w, next.err)
    ELSE IF next.val >= EOC_MIN
    THEN [w EXCEPT !.pc = "followed", !.k = 1, !.chain = Append(w.chain, w.current)]
    ELSE IF next.val < 2
    THEN walk_returns(w, "InvalidCluster")
    ELSE [w EXCEPT !.current = next.val, !.left = w.left - 1,
                   !.chain = Append(w.chain, w.current)]

\* read_file up to follow_chain
read_file_begin(entry) ==
    IF ~is_file(entry)
    THEN walk_returns([NoWalk EXCEPT !.op = "read_file", !.entry = entry], "NotAFile")
    ELSE IF entry.size = 0
    THEN walk_returns([NoWalk EXCEPT !.op = "read_file", !.entry = entry], "Ok")
    ELSE IF entry.first_cluster < 2
    THEN walk_returns([NoWalk EXCEPT !.op = "read_file", !.entry = entry],
                      "InvalidCluster")
    ELSE follow_chain_begin([NoWalk EXCEPT !.op = "read_file", !.entry = entry],
                            entry.first_cluster, MAX_CHAIN)

\* read_file after follow_chain: the bytes of the clusters, up to size
read_file_copied(w, r) == [w EXCEPT !.pc = "done", !.err = r.err, !.bytes = r.bytes]

read_file_copy(self, w) ==
    read_file_copied(w, read_file_loop(self, w.chain, 1, w.entry.size, <<>>))

list_dir_cluster_begin(start_cluster) ==
    follow_chain_begin([NoWalk EXCEPT !.op = "list_dir_cluster"], start_cluster, MAX_CHAIN)

\* list_dir_cluster after follow_chain: the entries of the clusters
list_dir_scanned(w, r) == [w EXCEPT !.pc = "done", !.err = r.err, !.entries = r.entries]

list_dir_walked(self, w) == list_dir_scanned(w, list_dir_scan(self, w.chain, 1, 0, <<>>))

free_chain_begin(start_cluster) ==
    IF start_cluster < 2
    THEN walk_returns([NoWalk EXCEPT !.op = "free_chain"], "Ok")
    ELSE follow_chain_begin([NoWalk EXCEPT !.op = "free_chain"], start_cluster, MAX_CHAIN)

\* free_chain after follow_chain: one turn of `for cl in chain`, written
\* being what write_fat_entry_all(cl, 0) returned
free_chain_turn(w, written) ==
    IF written.err # "Ok"
    THEN walk_returns(w, written.err)
    ELSE [w EXCEPT !.k = w.k + 1]

(***************************************************************************)
(* The volume the operations run on: the layout of the test image (a root  *)
(* directory with HELLO.TXT and DIR, the file's data, an empty DIR, free   *)
(* clusters after them) on a smaller geometry, with one or two FAT copies. *)
(***************************************************************************)
Geometry ==
    [bytes_per_sector |-> 32, sectors_per_cluster |-> 4, reserved_sectors |-> 16,
     sectors_per_fat |-> 1, root_cluster |-> 2, data_clusters |-> 5]

FatCopies == {1, 2}

\* "HELLO   " "TXT", "DIR     " "   ", "HELLO"
HelloName == <<72, 69, 76, 76, 79, 32, 32, 32>>

TxtExt == <<84, 88, 84>>

DirName == <<68, 73, 82, 32, 32, 32, 32, 32>>

NoExt == <<32, 32, 32>>

HelloData == <<72, 69, 76, 76, 79>>

build_test_image(nf) ==
    LET g == Geometry
        cs == g.bytes_per_sector * g.sectors_per_cluster
        b0 == Zeros(g.reserved_sectors * g.bytes_per_sector)
        b1 == copy_from_slice(b0, 11, u16_to_le_bytes(g.bytes_per_sector))
        b2 == copy_from_slice(b1, 13, <<g.sectors_per_cluster>>)
        b3 == copy_from_slice(b2, 14, u16_to_le_bytes(g.reserved_sectors))
        b4 == copy_from_slice(b3, 16, <<nf>>)
        b5 == copy_from_slice(b4, 36, u32_to_le_bytes(g.sectors_per_fat))
        bpb == copy_from_slice(b5, 44, u32_to_le_bytes(g.root_cluster))
        eoc == u32_to_le_bytes(FAT32_EOC)
        fat == copy_from_slice(Zeros(g.sectors_per_fat * g.bytes_per_sector), 8,
                               eoc \o eoc \o eoc)
        root == dir_entry_bytes(HelloName, TxtExt, 32, 3, Len(HelloData))
                    \o dir_entry_bytes(DirName, NoExt, 16, 4, 0)
                    \o Zeros(cs - 64)
        hello == HelloData \o Zeros(cs - Len(HelloData))
    IN  bpb \o (IF nf = 2 THEN fat \o fat ELSE fat)
            \o root \o hello \o Zeros((g.data_clusters - 2) * cs)

\* "/HELLO.TXT", "/hello.txt", "/NEW.TXT", "/A.", "/DIR/X", "/DIR",
\* "/NOPE/F", "/TOOLONGNM", "NEW", "/", and: a missing parent with a name
\* that is too long "/NOPE/TOOLONGNM", a file as parent "/HELLO.TXT/X", two
\* dots "/A.B.C", a long extension "/X.LONG", no base "/.TXT", the two
\* UTF-8 bytes of a non-ASCII letter "/\u00c9.TXT"
Paths ==
    {<<47, 72, 69, 76, 76, 79, 46, 84, 88, 84>>,
     <<47, 104, 101, 108, 108, 111, 46, 116, 120, 116>>,
     <<47, 78, 69, 87, 46, 84, 88, 84>>,
     <<47, 65, 46>>,
     <<47, 68, 73, 82, 47, 88>>,
     <<47, 68, 73, 82>>,
     <<47, 78, 79, 80, 69, 47, 70>>,
     <<47, 84, 79, 79, 76, 79, 78, 71, 78, 77>>,
     <<78, 69, 87>>,
     <<47>>,
     <<47, 78, 79, 80, 69, 47, 84, 79, 79, 76, 79, 78, 71, 78, 77>>,
     <<47, 72, 69, 76, 76, 79, 46, 84, 88, 84, 47, 88>>,
     <<47, 65, 46, 66, 46, 67>>,
     <<47, 88, 46, 76, 79, 78, 71>>,
     <<47, 46, 84, 88, 84>>,
     <<47, 195, 137, 46, 84, 88, 84>>}

\* n bytes that differ from their neighbours
Content(n, seed) == [i \in 1..n |-> ((i * seed) % 127) + 1]

\* nothing, less than a cluster, more than a cluster
Contents == {<<>>, Content(3, 5), Content(130, 7)}

NoFatOp ==
    [op |-> "none", path |-> <<>>, content |-> <<>>, err |-> "Ok", some |-> FALSE,
     entries |-> <<>>]

\* no volume
FatIdle ==
    /\ disk = <<>>
    /\ fatLast = NoFatOp
    /\ ncalls = 0
    /\ walk = NoWalk

FatInit ==
    /\ \E nf \in FatCopies : disk = build_test_image(nf)
    /\ fatLast = NoFatOp
    /\ ncalls = 0
    /\ walk = NoWalk

\* what the caller of write_file_by_path sees
WriteReturned(path, content, rw, r) ==
    IF rw.err # "Ok"
    THEN /\ disk' = disk
         /\ fatLast' = [op |-> "write", path |-> path, content |-> content,
                        err |-> rw.err, some |-> FALSE, entries |-> <<>>]
    ELSE /\ disk' = r.disk
         /\ fatLast' = [op |-> "write", path |-> path, content |-> content,
                        err |-> r.err, some |-> FALSE, entries |-> <<>>]

WriteOn(path, content, rw) ==
    WriteReturned(path, content, rw, write_file_by_path(rw.fs, path, content))

\* Fat32Mut::new(&mut disk) and write_file_by_path
FatWrite(path, content) ==
    /\ disk # <<>>
    /\ ncalls < MaxCalls
    /\ WriteOn(path, content, Fat32_new(disk))
    /\ ncalls' = ncalls + 1
    /\ UNCHANGED <<walk, allocVars, histVars, repeat, lockVars>>

\* what the caller of read_file_by_path sees
ReadReturned(path, ro, r) ==
    fatLast' = [op |-> "read", path |-> path,
                content |-> IF ro.err = "Ok" THEN r.bytes ELSE <<>>,
                err |-> IF ro.err = "Ok" THEN r.err ELSE ro.err,
                some |-> ro.err = "Ok" /\ r.some,
                entries |-> <<>>]

ReadOn(path, ro) == ReadReturned(path, ro, read_file_by_path(ro.fs, path))

\* Fat32::new(&disk) and read_file_by_path
FatRead(path) ==
    /\ disk # <<>>
    /\ ncalls < MaxCalls
    /\ ReadOn(path, Fat32_new(disk))
    /\ ncalls' = ncalls + 1
    /\ UNCHANGED <<disk, walk, allocVars, histVars, repeat, lockVars>>

\* what the caller of list_dir_path sees
ListReturned(path, ro, r) ==
    fatLast' = [op |-> "list", path |-> path, content |-> <<>>,
                err |-> IF ro.err = "Ok" THEN r.err ELSE ro.err,
                some |-> FALSE,
                entries |-> IF ro.err = "Ok" THEN r.entries ELSE <<>>]

ListOn(path, ro) == ListReturned(path, ro, list_dir_path(ro.fs, path))

\* Fat32::new(&disk) and list_dir_path
FatList(path) ==
    /\ disk # <<>>
    /\ ncalls < MaxCalls
    /\ ListOn(path, Fat32_new(disk))
    /\ ncalls' = ncalls + 1
    /\ UNCHANGED <<disk, walk, allocVars, histVars, repeat, lockVars>>

FatNext ==
    \/ \E path \in Paths, content \in Contents : FatWrite(path, content)
    \/ \E path \in Paths : FatRead(path)
    \/ \E path \in Paths : FatList(path)


(***************************************************************************)
(* Calls that follow a chain, on the test image and on an image whose FAT  *)
(* holds two circular chains: the root directory's cluster 2 -> 2 and the  *)
(* file's clusters 3 -> 5 -> 3.                                            *)
(***************************************************************************)
Relinked(d, cluster, value) == write_fat_entry_all(Fat32_new(d).fs, cluster, value).disk

LoopImage == Relinked(Relinked(Relinked(build_test_image(1), 2, 2), 3, 5), 5, 3)

WalkImages == {build_test_image(1), LoopImage}

\* the entries read_file is given: HELLO.TXT with a size of two clusters,
\* an empty file, DIR
WalkEntries ==
    {DirEntry_parse(dir_entry_bytes(HelloName, TxtExt, 32, 3, 200)),
     DirEntry_parse(dir_entry_bytes(HelloName, TxtExt, 32, 0, 0)),
     DirEntry_parse(dir_entry_bytes(DirName, NoExt, 16, 4, 0))}

\* the clusters list_dir_cluster and free_chain start from
WalkListStarts == {1, 2, 4}

WalkFreeStarts == {0, 3}

WalkInit ==
    /\ disk \in WalkImages
    /\ fatLast = NoFatOp
    /\ ncalls = 0
    /\ walk = NoWalk

\* read_file(entry) is called
WalkReadFile(entry) ==
    /\ disk # <<>>
    /\ walk.pc = "idle"
    /\ walk' = read_file_begin(entry)
    /\ UNCHANGED <<disk, fatLast, ncalls, allocVars, histVars, repeat, lockVars>>

\* list_dir_cluster(start_cluster) is called
WalkListDir(start_cluster) ==
    /\ disk # <<>>
    /\ walk.pc = "idle"
    /\ walk' = list_dir_cluster_begin(start_cluster)
    /\ UNCHANGED <<disk, fatLast, ncalls, allocVars, histVars, repeat, lockVars>>

\* free_chain(start_cluster) is called
WalkFreeChain(start_cluster) ==
    /\ disk # <<>>
    /\ walk.pc = "idle"
    /\ walk' = free_chain_begin(start_cluster)
    /\ UNCHANGED <<disk, fatLast, ncalls, allocVars, histVars, repeat, lockVars>>

\* a turn of the loop of follow_chain; self is the volume the call works on
FollowStep ==
    /\ walk.pc = "follow"
    /\ \E self \in {Fat32_new(disk).fs} :
           walk' = follow_chain_turn(walk, read_fat_entry(self, walk.current))
    /\ UNCHANGED <<disk, fatLast, ncalls, allocVars, histVars, repeat, lockVars>>

ReadCopy ==
    /\ walk.pc = "followed"
    /\ walk.op = "read_file"
    /\ \E self \in {Fat32_new(disk).fs} : walk' = read_file_copy(self, walk)
    /\ UNCHANGED <<disk, fatLast, ncalls, allocVars, histVars, repeat, lockVars>>

ListScan ==
    /\ walk.pc = "followed"
    /\ walk.op = "list_dir_cluster"
    /\ \E self \in {Fat32_new(disk).fs} : walk' = list_dir_walked(self, walk)
    /\ UNCHANGED <<disk, fatLast, ncalls, allocVars, histVars, repeat, lockVars>>

FreeWritten(written) ==
    /\ walk' = free_chain_turn(walk, written)
    /\ disk' = written.disk

\* a turn of the loop of free_chain
FreeStep ==
    /\ walk.pc = "followed"
    /\ walk.op = "free_chain"
    /\ IF walk.k > Len(walk.chain)
       THEN walk' = walk_returns(walk, "Ok") /\ disk' = disk
       ELSE \E self \in {Fat32_new(disk).fs} :
                FreeWritten(write_fat_entry_all(self, walk.chain[walk.k], 0))
    /\ UNCHANGED <<fatLast, ncalls, allocVars, histVars, repeat, lockVars>>

\* the caller has the result
WalkReturn ==
    /\ walk.pc = "done"
    /\ walk' = NoWalk
    /\ UNCHANGED <<disk, fatLast, ncalls, allocVars, histVars, repeat, lockVars>>

\* the steps of a call that is running
WalkRun == FollowStep \/ ReadCopy \/ ListScan \/ FreeStep

WalkNext ==
    \/ \E entry \in WalkEntries : WalkReadFile(entry)
    \/ \E start_cluster \in WalkListStarts : WalkListDir(start_cluster)
    \/ \E start_cluster \in WalkFreeStarts : WalkFreeChain(start_cluster)
    \/ FollowStep
    \/ ReadCopy
    \/ ListScan
    \/ FreeStep
    \/ WalkReturn
(***************************************************************************)
(* Fat32::new and Fat32Mut::new on buffers of several lengths, whose       *)
(* sector 0 holds zero and non-zero values in the six fields parse_bpb     *)
(* reads; 256 and 16777216 are values whose low byte is 0.                 *)
(***************************************************************************)
BpbLens == {0, 511, 512, 640}

BpbFields ==
    [bytes_per_sector : {0, 256, 512}, sectors_per_cluster : {0, 4},
     reserved_sectors : {0, 16}, num_fats : {0, 2},
     sectors_per_fat : {0, 1, 16777216}, root_cluster : {0, 2}]

\* a buffer of len bytes, zero but for the fields
BpbBuffer(len, p) ==
    IF len < 48
    THEN Zeros(len)
    ELSE copy_from_slice(
             copy_from_slice(
                 copy_from_slice(Zeros(len), 11,
                     u16_to_le_bytes(p.bytes_per_sector) \o <<p.sectors_per_cluster>>
                         \o u16_to_le_bytes(p.reserved_sectors) \o <<p.num_fats>>),
                 36, u32_to_le_bytes(p.sectors_per_fat)),
             44, u32_to_le_bytes(p.root_cluster))

BpbInit ==
    /\ \E len \in BpbLens, p \in BpbFields : disk = BpbBuffer(len, p)
    /\ fatLast = NoFatOp
    /\ ncalls = 0
    /\ walk = NoWalk

\* Fat32::new(&disk): the error, or the fields of the view
BpbNew ==
    /\ fatLast.op = "none"
    /\ \E r \in {Fat32_new(disk)} :
           fatLast' = [op |-> "new", err |-> r.err,
                       fs |-> [f \in DOMAIN NoBpb |-> r.fs[f]]]
    /\ UNCHANGED <<disk, ncalls, walk, allocVars, histVars, repeat, lockVars>>

(***************************************************************************)
(* Directories in other shapes than the test image's: a deleted slot, no   *)
(* free slot, entries after the terminator, a chain of two clusters. Each  *)
(* is the test image with other bytes in the root directory's clusters,    *)
(* and other FAT entries when the directory has two clusters.              *)
(***************************************************************************)
\* "A       ", "NEW     ", "OLD     ", "VOL     "
AName == <<65, 32, 32, 32, 32, 32, 32, 32>>

NewName == <<78, 69, 87, 32, 32, 32, 32, 32>>

OldName == <<79, 76, 68, 32, 32, 32, 32, 32>>

VolName == <<86, 79, 76, 32, 32, 32, 32, 32>>

HelloSlot == dir_entry_bytes(HelloName, TxtExt, 32, 3, Len(HelloData))

DirSlot == dir_entry_bytes(DirName, NoExt, 16, 4, 0)

\* an empty file
FileSlot(name_raw, ext_raw) == dir_entry_bytes(name_raw, ext_raw, 32, 0, 0)

\* a deleted entry: byte 0 is 0xE5
DeletedSlot(name_raw, ext_raw) == <<229>> \o Tail(FileSlot(name_raw, ext_raw))

\* a volume label: attribute 0x08
VolumeSlot(name_raw, ext_raw) == dir_entry_bytes(name_raw, ext_raw, 8, 0, 0)

EndSlot == Zeros(32)

\* the image with slots at the start of a cluster
WithSlots(d, cluster, slots) ==
    copy_from_slice(d, cluster_to_offset(Fat32_new(d).fs, cluster).off, slots)

\* a deleted slot before the entries
DeletedImage ==
    WithSlots(build_test_image(1), 2,
              DeletedSlot(OldName, TxtExt) \o HelloSlot \o DirSlot \o EndSlot)

\* no free slot; the volume label has the bytes of NEW.TXT
FullImage ==
    WithSlots(build_test_image(1), 2,
              HelloSlot \o DirSlot \o VolumeSlot(NewName, TxtExt)
                  \o FileSlot(OldName, TxtExt))

\* an entry after the terminator, in the same cluster
HiddenImage ==
    WithSlots(build_test_image(1), 2,
              HelloSlot \o DirSlot \o EndSlot \o FileSlot(AName, NoExt))

\* the root directory is 2 -> 5; the terminator is the last slot of cluster
\* 2 and cluster 5 holds an entry
SplitImage ==
    WithSlots(
        WithSlots(Relinked(Relinked(build_test_image(1), 2, 5), 5, FAT32_EOC), 2,
                  HelloSlot \o DirSlot \o VolumeSlot(VolName, NoExt) \o EndSlot),
        5, FileSlot(AName, NoExt) \o EndSlot)

\* the root directory is 2 -> 5 and its entries go on in cluster 5, after a
\* deleted slot; A has the 3 bytes of cluster 6
SpanImage ==
    WithSlots(
        WithSlots(
            WithSlots(
                Relinked(Relinked(Relinked(build_test_image(1), 2, 5), 5, FAT32_EOC),
                         6, FAT32_EOC),
                2, HelloSlot \o DirSlot \o DeletedSlot(NewName, TxtExt)
                       \o FileSlot(OldName, TxtExt)),
            5, dir_entry_bytes(AName, NoExt, 32, 6, 3) \o EndSlot),
        6, Content(3, 11))

DirImages == {DeletedImage, FullImage, HiddenImage, SplitImage, SpanImage}

\* "/HELLO.TXT", "/NEW.TXT", "/A", "/DIR", "/DIR/X"
DirPaths ==
    {<<47, 72, 69, 76, 76, 79, 46, 84, 88, 84>>,
     <<47, 78, 69, 87, 46, 84, 88, 84>>,
     <<47, 65>>,
     <<47, 68, 73, 82>>,
     <<47, 68, 73, 82, 47, 88>>}

\* "/", "/DIR"
DirListPaths == {<<47>>, <<47, 68, 73, 82>>}

DirInit ==
    /\ disk \in DirImages
    /\ fatLast = NoFatOp
    /\ ncalls = 0
    /\ walk = NoWalk

DirNext ==
    \/ \E path \in DirPaths, content \in Contents : FatWrite(path, content)
    \/ \E path \in DirListPaths : FatList(path)

(***************************************************************************)
(* Specifications.                                                         *)
(***************************************************************************)
\* the allocator core under one owner
Init ==
    /\ AllocInit
    /\ repeat = NoRepeat
    /\ LockIdle
    /\ FatIdle

Next ==
    \/ \E h \in Heaps : DoInit(h[1], h[2])
    \/ \E layout \in Layouts : Alloc(layout)
    \/ \E b \in live : Dealloc(b)
    \/ \E ptr \in StrayPtrs, layout \in Layouts : DeallocStray(ptr, layout)

Spec == Init /\ [][Next]_vars

\* an owner of the allocator whose requests fall in the size classes 1024
\* and 2048 (four and two blocks per chunk) or are large: two layouts of class
\* 1024, one chosen by its size and one by its alignment, one of class 2048,
\* and a large one; the arenas hold three chunks, or one chunk behind padding
SlabHeaps ==
    {<<CHUNK_SIZE, 3 * CHUNK_SIZE>>, <<CHUNK_SIZE + 16, 2 * CHUNK_SIZE - 16>>}

SlabLayouts ==
    {Layout(1024, 8), Layout(8, 1024), Layout(1025, 8), Layout(4097, 8)}

SlabNext ==
    \/ \E h \in SlabHeaps : DoInit(h[1], h[2])
    \/ \E layout \in SlabLayouts : Alloc(layout)
    \/ \E b \in live : Dealloc(b)

SlabSpec == Init /\ [][SlabNext]_vars

\* one layout allocated until the arena is exhausted; the caller keeps calling
RepeatInit ==
    /\ AllocInit
    /\ \E l \in RepeatLayouts : repeat = [size |-> l.size, align |-> l.align, turn |-> 0]
    /\ LockIdle
    /\ FatIdle

RepeatStep ==
    \/ \E h \in Heaps : DoInit(h[1], h[2])
    \/ RepeatAlloc

RepeatSpec == RepeatInit /\ [][RepeatStep]_vars /\ WF_vars(RepeatStep)

\* threads on a LockedAlloc
LockSpec == Init /\ [][LockNext]_vars

\* threads on a LockedAlloc, any of which may call the wrapper again from
\* inside its critical section
ReentrantNext ==
    \/ LockNext
    \/ \E t \in Threads : Reenter(t) \/ Relock(t)

ReentrantSpec == Init /\ [][ReentrantNext]_vars

\* a thread that holds the lock keeps running: the critical section is
\* straight-line code with no suspension point
LockFairSpec ==
    /\ Init
    /\ [][LockNext]_vars
    /\ \A t \in Threads :
           WF_vars(Enter(t)) /\ WF_vars(Run(t)) /\ WF_vars(Release(t))

\* a caller that writes files to a volume and reads files from it
FatSpecInit ==
    /\ AllocInit
    /\ repeat = NoRepeat
    /\ LockIdle
    /\ FatInit

FatSpec == FatSpecInit /\ [][FatNext]_vars

\* a caller of read_file, list_dir_cluster and free_chain; a call that has
\* started runs on until it returns
WalkSpecInit ==
    /\ AllocInit
    /\ repeat = NoRepeat
    /\ LockIdle
    /\ WalkInit

WalkSpec == WalkSpecInit /\ [][WalkNext]_vars /\ WF_vars(WalkRun)

\* a caller of Fat32::new on a buffer it was handed
BpbSpecInit ==
    /\ AllocInit
    /\ repeat = NoRepeat
    /\ LockIdle
    /\ BpbInit

BpbSpec == BpbSpecInit /\ [][BpbNew]_vars

\* a caller that writes files to directories of several shapes and lists them
DirSpecInit ==
    /\ AllocInit
    /\ repeat = NoRepeat
    /\ LockIdle
    /\ DirInit

DirSpec == DirSpecInit /\ [][DirNext]_vars

(***************************************************************************)
(* Claims on the allocator core.                                           *)
(***************************************************************************)
\* the bytes [addr, addr + size) of two allocations do not meet
Disjoint(b, c) ==
    \/ b.size = 0
    \/ c.size = 0
    \/ b.addr + b.size <= c.addr
    \/ c.addr + c.size <= b.addr

\* C1 (isolation): after init and any calls that respect the contract, two
\* distinct live allocations, of any classes, occupy disjoint byte ranges
\* [addr, addr + size).
C1_Isolation ==
    \A b \in live : \A c \in live : b # c => Disjoint(b, c)

\* two blocks are live, one of a size class and a large one
C1_Witness ==
    \E b \in live : \E c \in live :
        /\ class_index_for(Layout(b.size, b.align)) # NoClass
        /\ class_index_for(Layout(c.size, c.align)) = NoClass
        /\ c.size > 0

\* C4 (LIFO reuse): an allocation of a size class into which blocks were
\* deallocated and not yet handed out again returns the most recently
\* deallocated of them; so after p, q = alloc; dealloc(p); dealloc(q) the
\* next two allocations return q, then p.
C4_LifoReuse ==
    (last.op = "alloc" /\ last.expect # NULL) => last.ptr = last.expect

\* an allocation returned the later of two deallocated blocks, the earlier
\* one still waiting
C4_Witness ==
    /\ last.op = "alloc"
    /\ last.expect # NULL
    /\ last.ptr = last.expect
    /\ freed[class_index_for(Layout(last.size, last.align))] # <<>>

\* C5 (alignment): every non-null address alloc returns is a multiple of the
\* alignment asked for, from a size class or from the bump region.
C5_Aligned ==
    (last.op = "alloc" /\ last.ptr # NULL) => last.ptr % last.align = 0

\* a block of a size class was returned from an arena that starts off the
\* chunk alignment
C5_Witness ==
    /\ last.op = "alloc"
    /\ last.ptr # NULL
    /\ last.align = 32
    /\ heap_start % CHUNK_SIZE # 0

\* the request of the last call fits: its class has a free block or one
\* aligned chunk fits in the bump region; a large request fits there itself
Fits(c) ==
    IF class_index_for(Layout(c.size, c.align)) # NoClass
    THEN c.hadFree \/ align_up(c.bump0, CHUNK_SIZE) + CHUNK_SIZE <= heap_end
    ELSE align_up(c.bump0, c.align) + c.size <= heap_end

\* C6 as stated: after init, alloc(s, a) is non-null whenever a is a power of
\* two and s and a are at most the remaining capacity heap_end - bump.
C6_AsStated ==
    (/\ last.op = "alloc"
     /\ last.init0
     /\ is_power_of_two(last.align)
     /\ last.size <= heap_end - last.bump0
     /\ last.align <= heap_end - last.bump0) => last.ptr # NULL

\* C6 (availability), amended: after init, alloc(s, a) with a a power of two
\* is non-null whenever the request fits: for a size class, its free list is
\* not empty or a CHUNK_SIZE-aligned chunk of CHUNK_SIZE bytes fits between
\* bump and heap_end; for a large request, align_up(bump, a) + s <= heap_end.
C6_Available ==
    (/\ last.op = "alloc"
     /\ last.init0
     /\ is_power_of_two(last.align)
     /\ Fits(last)) => last.ptr # NULL

\* a refill took a chunk that ends exactly at heap_end
C6_Witness ==
    /\ last.op = "alloc"
    /\ last.init0
    /\ class_index_for(Layout(last.size, last.align)) # NoClass
    /\ ~last.hadFree
    /\ last.ptr # NULL
    /\ bump = heap_end

\* C7 (uninitialized): while init has not been called every alloc returns
\* null and alloc and dealloc leave the allocator as new() built it; an
\* alloc that succeeded was made after init.
C7_Uninitialized ==
    /\ ~initialized => (Self = new /\ (last.op = "alloc" => last.ptr = NULL))
    /\ (last.op = "alloc" /\ last.ptr # NULL) => last.init0

\* dealloc of a non-null pointer was called on an allocator never initialized
C7_Witness ==
    /\ ~initialized
    /\ last.op = "dealloc"
    /\ last.ptr # NULL

\* C8 as stated: once an alloc has returned null, no later allocation
\* succeeds unless a block of its size class was deallocated in between.
C8_AsStated ==
    (last.op = "alloc" /\ last.ptr # NULL) => last.licensed

\* this step is a dealloc of a block of the size class of layout l
DeallocInto(l) ==
    /\ last'.op = "dealloc"
    /\ last'.ptr # NULL
    /\ class_index_for(l) # NoClass
    /\ class_index_for(Layout(last'.size, last'.align)) = class_index_for(l)

\* C8 (exhaustion is sticky), amended: on an initialized allocator, once
\* alloc of a layout returns null, alloc of that layout keeps returning null
\* until a block of the same size class is deallocated (for a large layout:
\* for ever); allocations of other classes may still succeed.
C8_StickyPerClass ==
    [][\A l \in Layouts :
          (initialized /\ alloc(Self, l).res = NULL /\ ~DeallocInto(l))
              => alloc(Self', l).res = NULL]_vars

\* an alloc returned null after an earlier null, no block of its class
\* having been deallocated in between
C8_Witness ==
    /\ last.op = "alloc"
    /\ last.init0
    /\ last.ptr = NULL
    /\ ~last.licensed

(***************************************************************************)
(* Claims on repeated allocation.                                          *)
(***************************************************************************)
\* the caller's last alloc, made after init, returned null
Exhausted == last.op = "alloc" /\ last.init0 /\ last.ptr = NULL

\* C9 as stated: after init, repeated alloc of one layout with no dealloc
\* eventually returns null, for every layout alloc accepts.
C9_AsStated == <>Exhausted

\* C9 (exhaustion is reached), amended: after init, repeated alloc of one
\* layout with no dealloc eventually returns null, for every layout of a
\* size class and every large layout of non-zero size; a large layout of size
\* zero can be allocated for ever.
C9_Exhausts ==
    (repeat.size > 0 \/ class_index_for(Layout(repeat.size, repeat.align)) # NoClass)
        ~> Exhausted

\* alloc returned null after it had handed out blocks of a size class
C9_Witness ==
    /\ Exhausted
    /\ class_index_for(Layout(repeat.size, repeat.align)) # NoClass
    /\ bump > heap_start

(***************************************************************************)
(* Claims on the locked wrapper.                                           *)
(***************************************************************************)
\* the threads between a successful compare_exchange and the store(false)
Holders == {t \in Threads : pc[t] \in {"guard", "core", "drop"}}

\* C2 (mutual exclusion): at most one thread at a time is between a
\* successful compare_exchange(false -> true) and the matching store(false).
C2_MutualExclusion == Cardinality(Holders) <= 1

\* one thread runs the core method while another spins on the lock
C2_Witness ==
    \E t \in Threads : \E u \in Threads :
        /\ pc[t] = "core"
        /\ pc[u] = "lock"
        /\ locked

\* C10 (lock release): the flag is false whenever no call is between its
\* compare_exchange and its store, and every call that acquired the lock
\* releases it, whatever it returns.
C10_LockRelease ==
    /\ [](Holders = {} => ~locked)
    /\ \A t \in Threads : (pc[t] \in {"guard", "core", "drop"}) ~> (pc[t] = "idle")

\* an alloc that returns null is about to drop its guard while another call
\* waits for the lock
C10_Witness ==
    \E t \in Threads : \E u \in Threads :
        /\ pc[t] = "drop"
        /\ call[t].op = "alloc"
        /\ initialized
        /\ ret[t] = NULL
        /\ pc[u] = "lock"

(***************************************************************************)
(* Claims on the FAT32 engine.                                             *)
(***************************************************************************)
\* C3 (as stated): when write_file_by_path(path, content) has succeeded,
\* read_file_by_path(path) on the resulting image returns Ok(Some(content)),
\* for a file that was created and for one that was overwritten
C3_RoundTrip ==
    (fatLast.op = "write" /\ fatLast.err = "Ok") =>
        read_file_by_path(Fat32_new(disk).fs, fatLast.path)
            = [err |-> "Ok", some |-> TRUE, bytes |-> fatLast.content]


\* the directory entry of the file a path names, found as write_file_by_path
\* finds it: by the encoded 8.3 bytes, in the directory the parent path names
TargetIn(self, sp, enc) ==
    find_dir_entry_offset_by_short_name(
        self,
        IF sp.parent = <<SLASH>>
        THEN self.root_cluster
        ELSE open_path(self, sp.parent).entry.first_cluster,
        enc.name, enc.ext)

TargetSplit(self, sp) == TargetIn(self, sp, encode_short_name_8_3(sp.name))

TargetEntry(d, path) == TargetSplit(Fat32_new(d).fs, split_parent(path)).entry

\* the entry of a cluster in FAT copy i (from 0), and the clusters of a chain
FatEntryIn(self, i, cluster) ==
    u32_from_le_bytes(self.disk,
                      fat_start_byte(self) + i * fat_bytes_len(self) + cluster * 4)
        % (FAT32_EOC + 1)

FreeInAll(self, cluster) ==
    \A i \in 0..(self.num_fats - 1) : FatEntryIn(self, i, cluster) = 0

ChainOf(d, first_cluster) ==
    LET chain == follow_chain(Fat32_new(d).fs, first_cluster, MAX_CHAIN).chain
    IN  {chain[k] : k \in 1..Len(chain)}

\* a write of the empty content that succeeds right after a write of some
\* bytes to the same path succeeded
EmptiedStep ==
    /\ fatLast.op = "write" /\ fatLast.err = "Ok" /\ fatLast.content # <<>>
    /\ fatLast'.op = "write" /\ fatLast'.err = "Ok" /\ fatLast'.content = <<>>
    /\ fatLast'.path = fatLast.path
    /\ ncalls' = ncalls + 1

\* the entry has size 0 and first cluster 0, and the clusters of the chain
\* the file had are free in every FAT copy
EmptiedReleased ==
    /\ TargetEntry(disk', fatLast.path).some
    /\ TargetEntry(disk', fatLast.path).size = 0
    /\ TargetEntry(disk', fatLast.path).first_cluster = 0
    /\ ChainOf(disk, TargetEntry(disk, fatLast.path).first_cluster) # {}
    /\ \A c \in ChainOf(disk, TargetEntry(disk, fatLast.path).first_cluster) :
           FreeInAll(Fat32_new(disk').fs, c)

\* C11 (as stated): after a successful write(path, big) followed by a
\* successful write(path, b""), read(path) returns the empty byte string,
\* the directory entry has size 0 and first_cluster 0, and every cluster of
\* the old chain has FAT entry 0
C11_AsStated ==
    [][EmptiedStep =>
          /\ read_file_by_path(Fat32_new(disk').fs, fatLast.path)
                 = [err |-> "Ok", some |-> TRUE, bytes |-> <<>>]
          /\ EmptiedReleased]_vars

\* C11, the part about the entry and the FAT alone: it holds for every path
C11_Released == [][EmptiedStep => EmptiedReleased]_vars

\* the FAT copies of a volume that has two or more hold the same bytes
FatsIdenticalIn(self) ==
    /\ self.num_fats >= 2
    /\ \A i \in 1..(self.num_fats - 1) :
           Slice(self.disk, fat_start_byte(self) + i * fat_bytes_len(self),
                 fat_start_byte(self) + (i + 1) * fat_bytes_len(self))
               = Slice(self.disk, fat_start_byte(self),
                       fat_start_byte(self) + fat_bytes_len(self))

FatsIdentical(d) == FatsIdenticalIn(Fat32_new(d).fs)

\* C12: with num_fats >= 2, FAT copies that were identical before a call of
\* write_file_by_path are identical after it, whether the call allocated a
\* chain, released one, did both, or failed after it released one
C12_Mirrored ==
    [][(fatLast'.op = "write" /\ ncalls' = ncalls + 1 /\ FatsIdentical(disk))
          => FatsIdentical(disk')]_vars

\* an overwrite on a volume with two FAT copies released cluster 3 and
\* allocated 3 -> 5 -> EOC, in the second copy too
C12_Witness ==
    /\ fatLast.op = "write" /\ fatLast.err = "Ok"
    /\ Fat32_new(disk).fs.num_fats = 2
    /\ FatEntryIn(Fat32_new(disk).fs, 1, 3) = 5
    /\ FatEntryIn(Fat32_new(disk).fs, 1, 5) = FAT32_EOC
    /\ FatsIdentical(disk)

\* the directory entries of a volume: those of the root directory, then
\* those of each directory the root directory names
RootEntries(self) == list_dir_cluster(self, self.root_cluster).entries

SubEntries(self, e) ==
    IF is_dir(e) THEN list_dir_cluster(self, e.first_cluster).entries ELSE <<>>

RECURSIVE SubEntriesFrom(_, _, _)
SubEntriesFrom(self, root, i) ==
    IF i > Len(root)
    THEN <<>>
    ELSE SubEntries(self, root[i]) \o SubEntriesFrom(self, root, i + 1)

AllEntriesUnder(self, root) == root \o SubEntriesFrom(self, root, 1)

AllEntries(self) == AllEntriesUnder(self, RootEntries(self))

\* an entry that owns clusters: a directory or a file that is not empty
Chained(e) == is_dir(e) \/ e.size > 0

ChainsOf(self, entries) ==
    [k \in 1..Len(entries) |-> follow_chain(self, entries[k].first_cluster, MAX_CHAIN)]

ClustersIn(chain) == {chain.chain[k] : k \in 1..Len(chain.chain)}

\* the chain starts at a cluster >= 2, is followed without an error up to
\* an end-of-chain entry, and none of its clusters is free in a FAT copy
ChainOk(self, e, chain) ==
    /\ e.first_cluster >= 2
    /\ chain.err = "Ok"
    /\ chain.chain # <<>>
    /\ read_fat_entry(self, chain.chain[Len(chain.chain)]).val >= EOC_MIN
    /\ \A k \in 1..Len(chain.chain) :
           \A i \in 0..(self.num_fats - 1) : FatEntryIn(self, i, chain.chain[k]) # 0

ConsistentChains(self, entries, chains) ==
    \A k \in 1..Len(entries) :
        Chained(entries[k]) =>
            /\ ChainOk(self, entries[k], chains[k])
            /\ self.root_cluster \notin ClustersIn(chains[k])
            /\ \A m \in 1..Len(entries) :
                   (m # k /\ Chained(entries[m])) =>
                       ClustersIn(chains[k]) \cap ClustersIn(chains[m]) = {}

ConsistentEntries(self, entries) ==
    ConsistentChains(self, entries, ChainsOf(self, entries))

ConsistentIn(self) == ConsistentEntries(self, AllEntries(self))

Consistent(d) == ConsistentIn(Fat32_new(d).fs)

\* C13: the image the calls start from is consistent, and a successful
\* write_file_by_path on a consistent image leaves a consistent image:
\* every non-empty file's chain starts at a cluster >= 2, ends at an entry
\* >= 0x0FFFFFF8 and holds no cluster whose FAT entry is 0, and no cluster
\* is in the chains of two directory entries
C13_ChainsConsistent ==
    /\ Consistent(disk)
    /\ [][(fatLast'.op = "write" /\ fatLast'.err = "Ok" /\ ncalls' = ncalls + 1
              /\ Consistent(disk))
             => Consistent(disk')]_vars

\* two successful writes left three files with chains: /HELLO.TXT on 3,
\* /DIR/X and a new file in the root
C13_Witness ==
    /\ fatLast.op = "write" /\ fatLast.err = "Ok" /\ ncalls = 2
    /\ Cardinality({k \in 1..Len(AllEntries(Fat32_new(disk).fs)) :
                      AllEntries(Fat32_new(disk).fs)[k].size > 0}) = 3
    /\ Len(AllEntries(Fat32_new(disk).fs)) > Len(RootEntries(Fat32_new(disk).fs))
    /\ Consistent(disk)

\* the file a path resolves to references no cluster that the FAT marks
\* free: it has no chain (first cluster 0) or a chain that can be followed
\* to its end
NoDangling(self, opened) ==
    (opened.err = "Ok" /\ opened.entry.some /\ is_file(opened.entry)
        /\ opened.entry.first_cluster >= 2)
        => ChainOk(self, opened.entry,
                   follow_chain(self, opened.entry.first_cluster, MAX_CHAIN))

NoDanglingIn(self, path) == NoDangling(self, open_path(self, path))

\* C14 (as stated): after a write_file_by_path that returned an error, the
\* target file has its complete new chain or no chain: its directory entry
\* references no cluster that the FAT marks free
C14_AsStated ==
    (fatLast.op = "write" /\ fatLast.err # "Ok")
        => NoDanglingIn(Fat32_new(disk).fs, fatLast.path)

\* the path is absolute, names a final component, and its parent path
\* resolves to nothing on the volume
ParentMissingAt(self, sp) ==
    /\ sp.err = "Ok"
    /\ sp.parent # <<SLASH>>
    /\ open_path(self, sp.parent) = [err |-> "Ok", entry |-> NoEntry]

ParentMissing(d, path) ==
    /\ starts_with_slash(path)
    /\ path # <<SLASH>>
    /\ ParentMissingAt(Fat32_new(d).fs, split_parent(path))

\* C15 (as stated): write_file_by_path on a path whose parent directory
\* does not resolve returns PathNotFound
C15_AsStated ==
    [][(fatLast'.op = "write" /\ ncalls' = ncalls + 1
           /\ ParentMissing(disk, fatLast'.path))
          => fatLast'.err = "PathNotFound"]_vars

\* C15 for the paths whose final component is a valid 8.3 name: it holds
C15_ValidName ==
    [][(fatLast'.op = "write" /\ ncalls' = ncalls + 1
           /\ ParentMissing(disk, fatLast'.path)
           /\ encode_short_name_8_3(split_parent(fatLast'.path).name).err = "Ok")
          => fatLast'.err = "PathNotFound"]_vars

\* a name as the naming rule reads it: what is before its last dot and
\* what is after it (the whole name and nothing when it has no dot)
DotsOf(name) == {i \in 1..Len(name) : name[i] = DOT}

LastDot(name) == CHOOSE i \in DotsOf(name) : \A j \in DotsOf(name) : j <= i

BaseOf(name) ==
    IF DotsOf(name) = {} THEN name ELSE SubSeq(name, 1, LastDot(name) - 1)

ExtOf(name) ==
    IF DotsOf(name) = {} THEN <<>> ELSE SubSeq(name, LastDot(name) + 1, Len(name))

\* base of 1..=8 ASCII bytes, extension of 0..=3 ASCII bytes, one dot at most
ValidShortName(name) ==
    /\ Cardinality(DotsOf(name)) <= 1
    /\ Len(BaseOf(name)) >= 1 /\ Len(BaseOf(name)) <= 8
    /\ Len(ExtOf(name)) <= 3
    /\ \A i \in 1..Len(name) : name[i] < 128

\* an absolute path other than "/" that has a final component
NamesAFile(path) ==
    /\ starts_with_slash(path)
    /\ path # <<SLASH>>
    /\ split_parent(path).err = "Ok"

\* C16: write_file_by_path on a path that names a final component returns
\* InvalidName when the component has a base longer than 8 bytes, an
\* extension longer than 3 bytes, an empty base, more than one '.', or a
\* non-ASCII byte, whatever the parent is, and returns InvalidName for no
\* component with a base of 1..=8 ASCII bytes, an extension of 0..=3 ASCII
\* bytes and no other dot
C16_NameValidation ==
    (fatLast.op = "write" /\ NamesAFile(fatLast.path))
        => (fatLast.err = "InvalidName"
                <=> ~ValidShortName(split_parent(fatLast.path).name))

\* a write to a path whose final component holds a non-ASCII byte was
\* refused with InvalidName
C16_Witness ==
    /\ fatLast.op = "write"
    /\ fatLast.err = "InvalidName"
    /\ \E i \in 1..Len(fatLast.path) : fatLast.path[i] > 127

\* sizes and first clusters a directory entry may carry
EntrySizes == {0, 5, 200}

EntryClusters == {0, 1, 3, 9}

\* read_file refuses every directory entry of the volume, whatever its
\* size and first cluster are
DirsRefused(self) ==
    \A k \in 1..Len(AllEntries(self)) :
        is_dir(AllEntries(self)[k]) =>
            \A size \in EntrySizes, cluster \in EntryClusters :
                read_file(self, [AllEntries(self)[k] EXCEPT !.size = size,
                                                            !.first_cluster = cluster])
                    = [err |-> "NotAFile", bytes |-> <<>>]

ResolvesTo(self, path, dir) ==
    /\ open_path(self, path).err = "Ok"
    /\ open_path(self, path).entry.some
    /\ is_dir(open_path(self, path).entry) = dir

\* C17: list_dir_path on a path that resolves to a file returns
\* NotADirectory, and read_file and read_file_by_path on an entry that is a
\* directory return NotAFile, whatever the entry's size and first cluster
C17_TypeEnforced ==
    /\ (fatLast.op = "list" /\ ResolvesTo(Fat32_new(disk).fs, fatLast.path, FALSE))
           => fatLast.err = "NotADirectory"
    /\ (fatLast.op = "read" /\ ResolvesTo(Fat32_new(disk).fs, fatLast.path, TRUE))
           => (fatLast.err = "NotAFile" /\ ~fatLast.some)
    /\ disk # <<>> => DirsRefused(Fat32_new(disk).fs)

\* list_dir_path was called on a file that a write created and returned
\* NotADirectory, on a volume that has a directory
C17_Witness ==
    /\ fatLast.op = "list"
    /\ fatLast.err = "NotADirectory"
    /\ fatLast.path = <<47, 78, 69, 87, 46, 84, 88, 84>>
    /\ \E k \in 1..Len(AllEntries(Fat32_new(disk).fs)) :
           is_dir(AllEntries(Fat32_new(disk).fs)[k])

\* the ASCII case variants of a path: every letter in upper case, every
\* letter in lower case, and the case of every other byte swapped
IsLower(ch) == ch >= 97 /\ ch <= 122

IsUpper(ch) == ch >= 65 /\ ch <= 90

UpperPath(path) ==
    [i \in 1..Len(path) |-> IF IsLower(path[i]) THEN path[i] - 32 ELSE path[i]]

LowerPath(path) ==
    [i \in 1..Len(path) |-> IF IsUpper(path[i]) THEN path[i] + 32 ELSE path[i]]

SwappedPath(path) ==
    [i \in 1..Len(path) |->
        IF i % 2 = 0 /\ IsLower(path[i]) THEN path[i] - 32
        ELSE IF i % 2 = 0 /\ IsUpper(path[i]) THEN path[i] + 32
        ELSE path[i]]

CaseVariants(path) == {UpperPath(path), LowerPath(path), SwappedPath(path)}

SameLookupAs(self, path, opened) ==
    \A variant \in CaseVariants(path) \ {path} : open_path(self, variant) = opened

SameLookup(self, path) == SameLookupAs(self, path, open_path(self, path))

\* C18: on the image the calls start from and on the image every write
\* leaves, open_path on an absolute path and on each of its ASCII case
\* variants resolve to the same directory entry, or all to None
C18_CaseInsensitive ==
    (disk # <<>> /\ fatLast.op \in {"none", "write"}) =>
        \A path \in Paths :
            starts_with_slash(path) => SameLookup(Fat32_new(disk).fs, path)

\* a file that a write created in DIR is found under the lower-case
\* spelling of its path
C18_Witness ==
    /\ fatLast.op = "write" /\ fatLast.err = "Ok"
    /\ Len(split_path(fatLast.path, 1, <<>>)) = 2
    /\ LowerPath(fatLast.path) # fatLast.path
    /\ open_path(Fat32_new(disk).fs, LowerPath(fatLast.path)).entry.some
    /\ is_file(open_path(Fat32_new(disk).fs, LowerPath(fatLast.path)).entry)

\* the walk of the call that returned used every turn of the loop and the
\* last cluster it visited is not the end of a chain
Overlong(self, w) ==
    /\ Len(w.chain) = MAX_CHAIN
    /\ read_fat_entry(self, w.chain[MAX_CHAIN]).val < EOC_MIN

\* C19 (as stated): a read_file or list_dir_cluster whose chain does not
\* reach an end-of-chain entry within 4096 clusters returns an error
C19_AsStated ==
    (walk.pc = "done" /\ walk.op \in {"read_file", "list_dir_cluster"}
        /\ Overlong(Fat32_new(disk).fs, walk))
        => walk.err # "Ok"

\* C20: every call that follows a chain returns, on circular chains too
C20_Terminates == (walk.pc # "idle") ~> (walk.pc = "done")

\* the walk of a circular chain stopped after 4096 turns and the call returned
C20_Witness ==
    /\ walk.pc = "done"
    /\ Len(walk.chain) = MAX_CHAIN
    /\ walk.left = 0

\* the little-endian value of the n bytes at offset off of sector 0
RECURSIVE FieldAt(_, _, _)
FieldAt(d, off, n) == IF n = 0 THEN 0 ELSE d[off + 1] + 256 * FieldAt(d, off + 1, n - 1)

\* the fields that must not be zero: bytes_per_sector, sectors_per_cluster,
\* num_fats, sectors_per_fat
HasZeroField(d) ==
    \/ FieldAt(d, 11, 2) = 0
    \/ FieldAt(d, 13, 1) = 0
    \/ FieldAt(d, 16, 1) = 0
    \/ FieldAt(d, 36, 4) = 0

\* C21: Fat32::new fails with BufferTooSmall exactly when the buffer is
\* shorter than 512 bytes, otherwise with NotFat32 exactly when one of
\* bytes_per_sector, sectors_per_cluster, num_fats, sectors_per_fat is zero,
\* and otherwise succeeds with the six fields read at 11, 13, 14, 16, 36, 44
C21_BpbValidation ==
    fatLast.op = "new" =>
        IF Len(disk) < 512
        THEN fatLast.err = "BufferTooSmall"
        ELSE IF HasZeroField(disk)
        THEN fatLast.err = "NotFat32"
        ELSE /\ fatLast.err = "Ok"
             /\ fatLast.fs = [bytes_per_sector |-> FieldAt(disk, 11, 2),
                              sectors_per_cluster |-> FieldAt(disk, 13, 1),
                              reserved_sectors |-> FieldAt(disk, 14, 2),
                              num_fats |-> FieldAt(disk, 16, 1),
                              sectors_per_fat |-> FieldAt(disk, 36, 4),
                              root_cluster |-> FieldAt(disk, 44, 4)]

\* a buffer of 512 bytes whose sectors_per_fat has only its high byte set
\* and whose reserved_sectors and root_cluster are 0 was accepted
C21_Witness ==
    /\ fatLast.op = "new" /\ fatLast.err = "Ok"
    /\ Len(disk) = 512
    /\ fatLast.fs.sectors_per_fat = 16777216
    /\ fatLast.fs.bytes_per_sector = 256
    /\ fatLast.fs.reserved_sectors = 0 /\ fatLast.fs.root_cluster = 0

\* a call of write_file_by_path was made in the step
WriteStep == fatLast'.op = "write" /\ ncalls' = ncalls + 1

\* max_cluster: min(2 + data_clusters - 1, fat_entries - 1)
MaxClusterOf(self) ==
    LET data_clusters == (Len(self.disk) - data_start_byte(self)) \div cluster_size(self)
        fat_entries == fat_bytes_len(self) \div 4
    IN  IF 2 + data_clusters - 1 <= fat_entries - 1
        THEN 2 + data_clusters - 1
        ELSE fat_entries - 1

\* the clusters of the chain of the entry old, a file's entry before the write
OldChain(self, old) ==
    IF old.some /\ old.first_cluster >= 2
    THEN ClustersIn(follow_chain(self, old.first_cluster, MAX_CHAIN))
    ELSE {}

\* the clusters that are free once the clusters of released are
FreeAfterRelease(self, released) ==
    {c \in 2..MaxClusterOf(self) : FatEntryIn(self, 0, c) = 0 \/ c \in released}

\* the n lowest elements of a set of clusters
Lowest(S, n) ==
    CHOOSE T \in SUBSET S :
        /\ Cardinality(T) = n
        /\ \A a \in T : \A b \in S \ T : a < b

\* the clusters of T are chained in ascending order and the last one holds
\* 0x0FFFFFFF
ChainedAscending(self, T) ==
    \A c \in T :
        FatEntryIn(self, 0, c) =
            IF \A b \in T : b <= c
            THEN FAT32_EOC
            ELSE CHOOSE n \in T : n > c /\ \A b \in T : b > c => n <= b

NeededFor(self, content) == (Len(content) + cluster_size(self) - 1) \div cluster_size(self)

\* the file has the clusters of T and its entry names the first one
ChainShape(after, entry, content, T) ==
    /\ Cardinality(T) = NeededFor(after, content)
    /\ ChainedAscending(after, T)
    /\ entry.some
    /\ entry.first_cluster = CHOOSE c \in T : \A b \in T : c <= b
    /\ entry.size = Len(content)
    /\ ClustersIn(follow_chain(after, entry.first_cluster, MAX_CHAIN)) = T

ChainShapeFrom(before, old, after, entry, content) ==
    \A T \in {Lowest(FreeAfterRelease(before, OldChain(before, old)),
                     NeededFor(before, content))} :
        ChainShape(after, entry, content, T)

\* C22: a successful write of content that is not empty gives the file the
\* ceil(len / cluster_size) lowest clusters that are free once its old chain
\* is released, chained in ascending order up to 0x0FFFFFFF, and its entry
\* has the first of them as first_cluster and len as size
C22_ChainShape ==
    [][(WriteStep /\ fatLast'.err = "Ok" /\ fatLast'.content # <<>>)
          => \A old \in {TargetEntry(disk, fatLast'.path)},
                entry \in {TargetEntry(disk', fatLast'.path)} :
                 ChainShapeFrom(Fat32_new(disk).fs, old, Fat32_new(disk').fs, entry,
                                fatLast'.content)]_vars

\* an overwrite of /HELLO.TXT with two clusters of bytes, when cluster 5
\* was taken: the file has its old cluster 3, then cluster 6
C22_Witness ==
    /\ fatLast.op = "write" /\ fatLast.err = "Ok" /\ Len(fatLast.content) > 128
    /\ TargetEntry(disk, fatLast.path).first_cluster = 3
    /\ FatEntryIn(Fat32_new(disk).fs, 0, 3) = 6
    /\ FatEntryIn(Fat32_new(disk).fs, 0, 6) = FAT32_EOC
    /\ FatEntryIn(Fat32_new(disk).fs, 0, 5) = FAT32_EOC

(***************************************************************************)
(* The slots of a directory, numbered from 1 along the clusters of its     *)
(* chain.                                                                  *)
(***************************************************************************)
SlotsPer(self) == cluster_size(self) \div 32

DirChain(self, start) == follow_chain(self, start, MAX_CHAIN).chain

SlotCluster(self, k) == ((k - 1) \div SlotsPer(self)) + 1

SlotOff(self, chain, k) ==
    data_start_byte(self) + (chain[SlotCluster(self, k)] - 2) * cluster_size(self)
        + ((k - 1) % SlotsPer(self)) * 32

SlotCount(self, chain) == Len(chain) * SlotsPer(self)

Byte0(self, chain, k) == self.disk[SlotOff(self, chain, k) + 1]

\* the number of the first slot whose byte 0 is 0x00, SlotCount + 1 if none
EndSlotOf(self, chain) ==
    IF \E k \in 1..SlotCount(self, chain) : Byte0(self, chain, k) = 0
    THEN CHOOSE k \in 1..SlotCount(self, chain) :
             /\ Byte0(self, chain, k) = 0
             /\ \A m \in 1..(k - 1) : Byte0(self, chain, m) # 0
    ELSE SlotCount(self, chain) + 1

\* the clusters that follow the cluster of the terminator hold only slots
\* whose byte 0 is 0x00
ClearBeyond(self, chain, end) ==
    \A k \in 1..SlotCount(self, chain) :
        SlotCluster(self, k) > SlotCluster(self, end) => Byte0(self, chain, k) = 0

\* the first clusters of the directories: the root and those it names
DirStartsFrom(self, root) ==
    {self.root_cluster} \cup
        {root[k].first_cluster : k \in {n \in 1..Len(root) : is_dir(root[n])}}

DirStarts(self) == DirStartsFrom(self, RootEntries(self))

ClearFrom(self, chain) == ClearBeyond(self, chain, EndSlotOf(self, chain))

ClearDirs(self) ==
    \A start \in DirStarts(self) : ClearFrom(self, DirChain(self, start))

DistinctNames(entries) ==
    \A i \in 1..Len(entries) : \A j \in 1..Len(entries) :
        i < j => normalize_name(entries[i].name) # normalize_name(entries[j].name)

\* no listing of a directory of the volume names two entries alike
NoDuplicates(self) ==
    \A start \in DirStarts(self) :
        DistinctNames(list_dir_cluster(self, start).entries)

\* both, for each directory of the volume
DistinctAndClear(self) ==
    \A start \in DirStarts(self) :
        /\ DistinctNames(list_dir_cluster(self, start).entries)
        /\ ClearFrom(self, DirChain(self, start))

\* the first cluster of the directory a write to the path looks in
ParentCluster(self, sp) ==
    IF sp.parent = <<SLASH>>
    THEN self.root_cluster
    ELSE open_path(self, sp.parent).entry.first_cluster

\* what the lookup of write_file_by_path finds for the path
TargetFound(d, path) == TargetSplit(Fat32_new(d).fs, split_parent(path))

ListedIn(d, path) ==
    list_dir_cluster(Fat32_new(d).fs,
                     ParentCluster(Fat32_new(d).fs, split_parent(path))).entries

\* a successful write to a path that named a file: the entry is in the slot
\* it was in and the directory lists as many entries as before
OverwriteInPlace ==
    (WriteStep /\ fatLast'.err = "Ok") =>
        \A old \in {TargetFound(disk, fatLast'.path)} :
            (old.found /\ old.entry.some) =>
                /\ TargetFound(disk', fatLast'.path).found
                /\ TargetFound(disk', fatLast'.path).off = old.off
                /\ Len(ListedIn(disk', fatLast'.path)) = Len(ListedIn(disk, fatLast'.path))

SlotEntry(self, chain, k) ==
    DirEntry_parse(Slice(self.disk, SlotOff(self, chain, k), SlotOff(self, chain, k) + 32))

\* the entry e is in the same bytes after the write, with the chain and the
\* content it had
EntryKept(before, after, off, e) ==
    /\ DirEntry_parse(Slice(after.disk, off, off + 32)) = e
    /\ Chained(e) =>
           follow_chain(after, e.first_cluster, MAX_CHAIN)
               = follow_chain(before, e.first_cluster, MAX_CHAIN)
    /\ is_file(e) => read_file(after, e) = read_file(before, e)

\* every entry of the directory but the one at offset written is kept
OthersKeptIn(before, after, chain, written) ==
    \A k \in 1..(EndSlotOf(before, chain) - 1) :
        (SlotOff(before, chain, k) # written /\ SlotEntry(before, chain, k).some) =>
            EntryKept(before, after, SlotOff(before, chain, k), SlotEntry(before, chain, k))

OthersKept(before, after, written) ==
    /\ DirChain(after, before.root_cluster) = DirChain(before, before.root_cluster)
    /\ \A start \in DirStarts(before) :
           OthersKeptIn(before, after, DirChain(before, start), written)

\* C24: a successful write on a consistent image leaves the entry, the
\* chain and the content of every other file and directory as they were
C24_Frame ==
    [][(WriteStep /\ fatLast'.err = "Ok" /\ Consistent(disk))
          => OthersKept(Fat32_new(disk).fs, Fat32_new(disk').fs,
                        TargetFound(disk', fatLast'.path).off)]_vars

\* /DIR/X was written after /NEW.TXT had taken a cluster: NEW.TXT, HELLO.TXT
\* and DIR are as they were
C24_Witness ==
    /\ fatLast.op = "write" /\ fatLast.err = "Ok"
    /\ fatLast.path = <<47, 68, 73, 82, 47, 88>> /\ fatLast.content # <<>>
    /\ Len(RootEntries(Fat32_new(disk).fs)) = 3
    /\ RootEntries(Fat32_new(disk).fs)[3].size = 3
    /\ Consistent(disk)

\* the bytes of every FAT copy
FatRegion(self) == Slice(self.disk, fat_start_byte(self), data_start_byte(self))

\* the parent path names a directory
ParentIsDir(self, sp) ==
    \/ sp.parent = <<SLASH>>
    \/ \E parent \in {open_path(self, sp.parent)} :
           parent.err = "Ok" /\ parent.entry.some /\ is_dir(parent.entry)

CreatesSplit(self, sp) ==
    /\ sp.err = "Ok"
    /\ encode_short_name_8_3(sp.name).err = "Ok"
    /\ ParentIsDir(self, sp)
    /\ \E old \in {TargetSplit(self, sp)} : old.err = "Ok" /\ ~old.found

\* the path names a file that is not in its parent directory, which exists
Creates(d, path) ==
    /\ starts_with_slash(path) /\ path # <<SLASH>>
    /\ CreatesSplit(Fat32_new(d).fs, split_parent(path))

\* C25 (as stated): a write_file_by_path that targets a name its parent
\* directory does not hold and returns an error leaves every FAT entry as it
\* was
C25_AsStated ==
    [][(WriteStep /\ fatLast'.err # "Ok" /\ Creates(disk, fatLast'.path))
          => FatRegion(Fat32_new(disk').fs) = FatRegion(Fat32_new(disk).fs)]_vars

\* the errors of the path, of the name and of the kind of the entries
ValidationErrors == {"Other", "InvalidName", "PathNotFound", "NotADirectory", "NotAFile"}

\* C26: a write_file_by_path that returns Other, InvalidName, PathNotFound,
\* NotADirectory or NotAFile leaves every byte of the image as it was
C26_NoMutation ==
    [][(WriteStep /\ fatLast'.err \in ValidationErrors) => disk' = disk]_vars

\* a write under a parent that is a file was refused on an image where an
\* earlier write had created /NEW.TXT
C26_Witness ==
    /\ fatLast.op = "write" /\ fatLast.err = "NotADirectory"
    /\ ncalls = 2
    /\ TargetFound(disk, <<47, 78, 69, 87, 46, 84, 88, 84>>).found

\* what the release of the old chain leaves, the image itself when the file
\* had no chain
Released(self, old) ==
    IF old.entry.some /\ old.entry.first_cluster >= 2
    THEN free_chain(self, old.entry.first_cluster)
    ELSE [err |-> "Ok", disk |-> self.disk]

\* the clusters of 2..=max_cluster whose FAT entry is 0
FreeAt(self) == {c \in 2..MaxClusterOf(self) : FatEntryIn(self, 0, c) = 0}

\* fewer clusters are free than the content needs
TooFew(self, content) == Cardinality(FreeAt(self)) < NeededFor(self, content)

\* no slot of the directory has 0x00 or 0xE5 as byte 0
NoSlotIn(self, chain) ==
    \A k \in 1..SlotCount(self, chain) : Byte0(self, chain, k) \notin {0, 229}

\* the name is not in the directory, which has no slot for it
FullFor(self, sp, old) ==
    ~old.found /\ NoSlotIn(self, DirChain(self, ParentCluster(self, sp)))

\* NoSpaceLeft exactly when clusters are missing, or when full says so; no
\* FAT entry is written after the release when clusters are missing
SpaceRule(after, err, few, full, released) ==
    /\ err = "NoSpaceLeft" <=> (few \/ full)
    /\ few => FatRegion(after) = FatRegion(released)

\* the call has a valid path and name, an existing parent directory and a
\* target that is not a directory
PassesSplit(self, sp) ==
    /\ sp.err = "Ok"
    /\ encode_short_name_8_3(sp.name).err = "Ok"
    /\ ParentIsDir(self, sp)
    /\ \E old \in {TargetSplit(self, sp)} :
           old.err = "Ok" /\ ~(old.entry.some /\ is_dir(old.entry))

Passes(d, path) ==
    /\ starts_with_slash(path) /\ path # <<SLASH>>
    /\ PassesSplit(Fat32_new(d).fs, split_parent(path))

SpaceRuleAt(before, after, err, content, sp, old, released, slots) ==
    released.err = "Ok" =>
        SpaceRule(after, err, TooFew(WithDisk(before, released.disk), content),
                  slots /\ FullFor(before, sp, old), WithDisk(before, released.disk))

SpaceRuleFrom(before, after, err, content, sp, old, slots) ==
    SpaceRuleAt(before, after, err, content, sp, old, Released(before, old), slots)

SpaceRuleStep(slots) ==
    (WriteStep /\ fatLast'.content # <<>> /\ Passes(disk, fatLast'.path)) =>
        \A before \in {Fat32_new(disk).fs}, sp \in {split_parent(fatLast'.path)} :
            SpaceRuleFrom(before, Fat32_new(disk').fs, fatLast'.err, fatLast'.content, sp,
                          TargetSplit(before, sp), slots)

\* C27 (as stated): a non-empty write returns NoSpaceLeft exactly when fewer
\* than ceil(len / cluster_size) clusters of 2..=max_cluster have FAT entry 0
\* once the old chain is released, and then the allocation writes no FAT entry
C27_AsStated == [][SpaceRuleStep(FALSE)]_vars

\* C27 (amended): NoSpaceLeft exactly when too few clusters are free once the
\* old chain is released, or when the name is new and the parent directory
\* has no slot whose byte 0 is 0x00 or 0xE5; when too few clusters are free
\* the allocation writes no FAT entry
C27_NoSpaceLeft == [][SpaceRuleStep(TRUE)]_vars

\* the overwrite of HELLO.TXT with two clusters of bytes failed when one
\* cluster was free after the release: cluster 3 is free, nothing was linked
C27_Witness ==
    /\ fatLast.op = "write" /\ fatLast.err = "NoSpaceLeft"
    /\ Len(fatLast.content) = 130
    /\ TargetEntry(disk, fatLast.path).first_cluster = 3
    /\ FreeAt(Fat32_new(disk).fs) = {3}

\* the slots of the directory whose byte 0 is 0x00 or 0xE5
FreeSlots(self, chain) ==
    {k \in 1..SlotCount(self, chain) : Byte0(self, chain, k) \in {0, 229}}

FirstFreeSlot(self, chain) ==
    CHOOSE k \in FreeSlots(self, chain) : \A m \in FreeSlots(self, chain) : k <= m

\* the create went to slot k: the lookup finds the entry there; when the
\* slot was the terminator and is not the last of its cluster, the next
\* slot is the terminator and the listing has one more entry, the new one
CreatedAt(before, after, chain, k, found, listed_before, listed_after) ==
    /\ found.err = "Ok" /\ found.found /\ found.entry.some
    /\ found.off = SlotOff(before, chain, k)
    /\ (Byte0(before, chain, k) = 0 /\ k % SlotsPer(before) # 0) =>
           /\ Byte0(after, chain, k + 1) = 0
           /\ listed_after = Append(listed_before, found.entry)

\* a create takes the first free slot; without one it is refused and the
\* chain of the directory is the chain it was
SlotRule(before, after, chain, chain_after, err, found, listed_before, listed_after) ==
    /\ (FreeSlots(before, chain) = {}) =>
           (err = "NoSpaceLeft" /\ chain_after = chain)
    /\ (err = "Ok") =>
           /\ FreeSlots(before, chain) # {}
           /\ chain_after = chain
           /\ CreatedAt(before, after, chain, FirstFreeSlot(before, chain), found,
                        listed_before, listed_after)

SlotRuleIn(before, after, parent_cluster, err, path) ==
    SlotRule(before, after, DirChain(before, parent_cluster),
             DirChain(after, parent_cluster), err, TargetFound(after.disk, path),
             list_dir_cluster(before, parent_cluster).entries,
             list_dir_cluster(after, parent_cluster).entries)

\* C28: a create writes the entry into the first slot of the parent's chain
\* whose byte 0 is 0x00 or 0xE5; when that slot was the terminator and the
\* next slot is in the same cluster, the next slot becomes the terminator and
\* the listing is the previous listing plus the new entry; without such a
\* slot the write returns NoSpaceLeft and the chain of the directory is not
\* extended
C28_SlotSelection ==
    [][(WriteStep /\ Creates(disk, fatLast'.path)) =>
          \A before \in {Fat32_new(disk).fs} :
              SlotRuleIn(before, Fat32_new(disk').fs,
                         ParentCluster(before, split_parent(fatLast'.path)),
                         fatLast'.err, fatLast'.path)]_vars

\* a create took the terminator in the third slot of the root directory and
\* the fourth slot, which held the bytes of an old entry, is the terminator
C28_Witness ==
    /\ fatLast.op = "write" /\ fatLast.err = "Ok"
    /\ \E self \in {Fat32_new(disk).fs} :
           /\ Len(RootEntries(self)) = 3
           /\ Byte0(self, <<2>>, 4) = 0
           /\ self.disk[SlotOff(self, <<2>>, 4) + 12] = 32

\* the slot has the volume-id bit in its attribute byte
IsVolume(self, chain, k) == (self.disk[SlotOff(self, chain, k) + 12] \div 8) % 2 = 1

\* bytes 0..11 of the slot
Name11(self, chain, k) ==
    Slice(self.disk, SlotOff(self, chain, k), SlotOff(self, chain, k) + 11)

\* the entries of the slots k .. end - 1 that are neither deleted nor volume
\* labels, in the order of the slots
RECURSIVE LiveFrom(_, _, _, _)
LiveFrom(self, chain, k, end) ==
    IF k >= end
    THEN <<>>
    ELSE IF Byte0(self, chain, k) = 229 \/ IsVolume(self, chain, k)
    THEN LiveFrom(self, chain, k + 1, end)
    ELSE <<SlotEntry(self, chain, k)>> \o LiveFrom(self, chain, k + 1, end)

\* the listing is made of the slots before the first 0x00
ListingStops(self, chain, listed) ==
    /\ listed.err = "Ok"
    /\ listed.entries = LiveFrom(self, chain, 1, EndSlotOf(self, chain))

\* the slots before the first 0x00 that are not deleted and hold the 11
\* bytes; volumes says whether a volume label can be one of them
Matching(self, chain, enc, volumes) ==
    {k \in 1..(EndSlotOf(self, chain) - 1) :
        /\ Byte0(self, chain, k) # 229
        /\ Name11(self, chain, k) = enc.name \o enc.ext
        /\ volumes \/ ~IsVolume(self, chain, k)}

\* the lookup finds the first of the slots M, or nothing when M is empty
LookupStops(self, chain, found, M) ==
    /\ found.err = "Ok"
    /\ found.found <=> M # {}
    /\ found.found =>
           \E k \in M : /\ \A m \in M : k <= m
                        /\ found.off = SlotOff(self, chain, k)

\* "HELLO.TXT", "NEW.TXT", "OLD.TXT", "A", "DIR", "VOL"
LookupNames ==
    {[name |-> HelloName, ext |-> TxtExt], [name |-> NewName, ext |-> TxtExt],
     [name |-> OldName, ext |-> TxtExt], [name |-> AName, ext |-> NoExt],
     [name |-> DirName, ext |-> NoExt], [name |-> VolName, ext |-> NoExt]}

ScanStopsIn(self, start, chain, volumes) ==
    /\ ListingStops(self, chain, list_dir_cluster(self, start))
    /\ \A enc \in LookupNames :
           LookupStops(self, chain,
                       find_dir_entry_offset_by_short_name(self, start, enc.name, enc.ext),
                       Matching(self, chain, enc, volumes))

ScanStops(self, volumes) ==
    \A start \in DirStarts(self) : ScanStopsIn(self, start, DirChain(self, start), volumes)

\* what list_dir_path returned is the listing of the image
ListedAsScanned(self) ==
    (fatLast.op = "list" /\ fatLast.err = "Ok") =>
        fatLast.entries = list_dir_path(self, fatLast.path).entries

\* C29 (as stated): the listing and the lookup of write_file_by_path stop at
\* the first slot whose byte 0 is 0x00 and return or match nothing after it;
\* slots with 0xE5 and volume labels are passed over by both
C29_AsStated ==
    \A self \in {Fat32_new(disk).fs} : ListedAsScanned(self) /\ ScanStops(self, FALSE)

\* C29 (amended): both scans stop at the first 0x00 and pass over 0xE5; the
\* listing passes over volume labels, the lookup matches the first slot that
\* holds the 11 bytes of the name, a volume label included
C29_ScanStops ==
    \A self \in {Fat32_new(disk).fs} : ListedAsScanned(self) /\ ScanStops(self, TRUE)

\* the root directory was listed after a write: two entries were returned,
\* the third slot is the terminator and the fourth holds an old entry
C29_Witness ==
    /\ fatLast.op = "list" /\ fatLast.err = "Ok" /\ fatLast.path = <<SLASH>>
    /\ ncalls = 2
    /\ Len(fatLast.entries) = 2
    /\ \E self \in {Fat32_new(disk).fs} :
           /\ EndSlotOf(self, <<2>>) = 3
           /\ Byte0(self, <<2>>, 4) = 65

\* the path names an entry of its parent directory that is a directory
OntoDirSplit(self, sp) ==
    /\ sp.err = "Ok"
    /\ encode_short_name_8_3(sp.name).err = "Ok"
    /\ ParentIsDir(self, sp)
    /\ \E old \in {TargetSplit(self, sp)} :
           old.err = "Ok" /\ old.found /\ old.entry.some /\ is_dir(old.entry)

OntoDir(d, path) ==
    /\ starts_with_slash(path) /\ path # <<SLASH>>
    /\ OntoDirSplit(Fat32_new(d).fs, split_parent(path))

\* the directory is where it was, with the entry and the chain it had, and
\* no FAT entry has changed
DirUntouched(before, after, old, entry) ==
    /\ entry = old
    /\ follow_chain(after, old.entry.first_cluster, MAX_CHAIN)
           = follow_chain(before, old.entry.first_cluster, MAX_CHAIN)
    /\ FatRegion(after) = FatRegion(before)

\* C30: write_file_by_path on a path whose final component names a directory
\* of the parent returns NotAFile; the entry of the directory, its chain and
\* the FAT are what they were
C30_OntoDirectory ==
    [][(WriteStep /\ OntoDir(disk, fatLast'.path)) =>
          /\ fatLast'.err = "NotAFile"
          /\ DirUntouched(Fat32_new(disk).fs, Fat32_new(disk').fs,
                          TargetFound(disk, fatLast'.path),
                          TargetFound(disk', fatLast'.path))]_vars

\* bytes were written to /DIR after an earlier call: the call was refused
\* and DIR has its cluster 4
C30_Witness ==
    /\ fatLast.op = "write" /\ fatLast.err = "NotAFile"
    /\ fatLast.path = <<47, 68, 73, 82>> /\ fatLast.content # <<>>
    /\ ncalls = 2
    /\ TargetEntry(disk, fatLast.path).first_cluster = 4
    /\ FatEntryIn(Fat32_new(disk).fs, 0, 4) = FAT32_EOC

\* C31 (as stated): a read_file that succeeded on a file entry returned
\* exactly entry.size bytes
C31_AsStated ==
    (walk.op = "read_file" /\ walk.pc = "done" /\ walk.err = "Ok" /\ is_file(walk.entry))
        => Len(walk.bytes) = walk.entry.size

(***************************************************************************)
(* Claims on the allocator core and on its locked wrapper.                 *)
(***************************************************************************)
\* C32: once init was called the bump cursor is within [heap_start,
\* heap_end]; no alloc and no dealloc leaves it lower than it found it, and
\* a dealloc leaves it where it was
C32_BumpCursor ==
    /\ initialized => (heap_start <= bump /\ bump <= heap_end)
    /\ last.op \in {"alloc", "dealloc"} => bump >= last.bump0
    /\ last.op = "dealloc" => bump = last.bump0

\* a block of a large layout was deallocated on an arena whose cursor had
\* advanced
C32_Witness ==
    /\ initialized
    /\ last.op = "dealloc" /\ last.ptr # NULL
    /\ class_index_for(Layout(last.size, last.align)) = NoClass
    /\ bump > heap_start

\* the addresses on a free list, from its head along the FreeNode.next words,
\* at most n of them
RECURSIVE free_list(_, _, _)
free_list(m, head, n) ==
    IF head = NULL \/ n = 0 THEN <<>>
    ELSE <<head>> \o free_list(m, m[head], n - 1)

\* the free list of class idx in the current state
FreeList(idx) == free_list(mem, caches[idx], Cardinality(DOMAIN mem) + 1)

\* C33 (free-list invariant): every address on a class's free list lies in
\* the arena with its whole block, is a multiple of the class's size, is the
\* start of a block of the class's size that no other entry of any free list
\* overlaps (so it is on the lists once), and no live block overlaps it
C33_FreeList ==
    \A idx \in Classes :
        \A fl \in {FreeList(idx)} :
            /\ Len(fl) <= Cardinality(DOMAIN mem)
            /\ \A i \in 1..Len(fl) :
                   /\ heap_start <= fl[i] /\ fl[i] + SIZE_CLASSES[idx] <= heap_end
                   /\ fl[i] % SIZE_CLASSES[idx] = 0
                   /\ \A b \in live :
                          Disjoint([addr |-> fl[i], size |-> SIZE_CLASSES[idx]],
                                   [addr |-> b.addr, size |-> Max(b.size, 1)])
                   /\ \A idx2 \in Classes :
                          \A fl2 \in {FreeList(idx2)} :
                              \A j \in 1..Len(fl2) :
                                  (idx2 # idx \/ j # i) =>
                                      Disjoint([addr |-> fl[i], size |-> SIZE_CLASSES[idx]],
                                               [addr |-> fl2[j], size |-> SIZE_CLASSES[idx2]])

\* the lists of two classes hold blocks, one of them a block that was
\* deallocated on top of the blocks of a refill, while a block is live
C33_Witness ==
    /\ Len(FreeList(8)) = 4
    /\ Len(FreeList(9)) = 1
    /\ Cardinality(live) = 1
    /\ last.op = "dealloc"

\* C34 (a failed allocation changes nothing): in every state, an alloc that
\* returns null returns the allocator it was given, bump cursor and free
\* lists included; and after an alloc that returned null the bump cursor is
\* where it was when the call started
C34_FailedAllocFrame ==
    /\ \A layout \in SlabLayouts :
           \A r \in {alloc(Self, layout)} : r.res = NULL => r.self = Self
    /\ (last.op = "alloc" /\ last.ptr = NULL) => bump = last.bump0

\* a small allocation has just failed on an initialized allocator for want
\* of a chunk, while the list of another class holds blocks
C34_Witness ==
    /\ last.op = "alloc" /\ last.ptr = NULL /\ last.init0
    /\ class_index_for(Layout(last.size, last.align)) = 9
    /\ caches[8] # NULL
    /\ bump > heap_start

\* the list of class idx after the step
FreeListNext(idx) == free_list(mem', caches'[idx], Cardinality(DOMAIN mem') + 1)

\* the blocks of class idx in the aligned chunk above the cursor b
ChunkBlocks(b, idx) ==
    {align_up(b, CHUNK_SIZE) + k * SIZE_CLASSES[idx] :
        k \in 0..(CHUNK_SIZE \div SIZE_CLASSES[idx] - 1)}

\* the other classes' lists are as before the step
OtherListsKept(idx) ==
    \A j \in Classes \ {idx} : caches'[j] = caches[j] /\ FreeListNext(j) = FreeList(j)

\* an alloc of class idx that returned ptr: from a non-empty list it took
\* the head and left the cursor; from an empty one it either failed or moved
\* the cursor past one aligned chunk, whose blocks are the block returned
\* and the new list
AllocAccounted(idx, ptr, before) ==
    IF before # <<>>
    THEN /\ ptr = Head(before)
         /\ bump' = bump
         /\ FreeListNext(idx) = Tail(before)
    ELSE \/ ptr = NULL /\ bump' = bump /\ FreeListNext(idx) = <<>>
         \/ /\ ptr # NULL
            /\ bump' = align_up(bump, CHUNK_SIZE) + CHUNK_SIZE
            /\ \A after \in {FreeListNext(idx)} :
                   /\ Len(after) = CHUNK_SIZE \div SIZE_CLASSES[idx] - 1
                   /\ {after[i] : i \in 1..Len(after)} \cup {ptr} = ChunkBlocks(bump, idx)
                   /\ ptr \notin {after[i] : i \in 1..Len(after)}

\* C35 (refill accounting): a small-class alloc refills only when the list
\* of its class is empty; a refill moves the cursor past exactly one
\* CHUNK_SIZE-aligned chunk of CHUNK_SIZE bytes and puts its CHUNK_SIZE / class
\* blocks on that class's list only; an alloc from a non-empty list takes the
\* head and leaves the cursor; a dealloc adds its block to the list and
\* leaves the cursor, so that N deallocs are followed by N allocs that
\* succeed without moving the cursor
C35_RefillAccounting ==
    [][\A idx \in {class_index_for(Layout(last'.size, last'.align))} :
           (initialized /\ idx # NoClass) =>
               /\ last'.op = "alloc" =>
                      /\ AllocAccounted(idx, last'.ptr, FreeList(idx))
                      /\ OtherListsKept(idx)
               /\ last'.op = "dealloc" =>
                      /\ bump' = bump
                      /\ FreeListNext(idx) = <<last'.ptr>> \o FreeList(idx)
                      /\ OtherListsKept(idx)]_vars

\* a refill has just happened behind alignment padding: three blocks of the
\* chunk are on the list
C35_Witness ==
    /\ last.op = "alloc" /\ last.ptr # NULL /\ ~last.hadFree
    /\ class_index_for(Layout(last.size, last.align)) = 8
    /\ last.bump0 % CHUNK_SIZE # 0
    /\ bump = align_up(last.bump0, CHUNK_SIZE) + CHUNK_SIZE
    /\ Len(FreeList(8)) = 3

\* C36 (as stated): a block returned by alloc at or above the cursor of the
\* call's start, hence never handed out before, holds zero in its first word
C36_AsStated ==
    (last.op = "alloc" /\ last.ptr # NULL /\ last.ptr >= last.bump0 /\ last.ptr \in DOMAIN mem)
        => mem[last.ptr] = 0

\* the layout is large: no size class holds max(size, align)
Large(layout) == Max(layout.size, layout.align) > CHUNK_SIZE

\* a dealloc with a large layout, of a live block or of any other pointer,
\* returns the allocator it was given, and after one the cursor is where it
\* was
LargeDeallocFrame ==
    /\ \A b \in live :
           Large(Layout(b.size, b.align)) =>
               dealloc(Self, b.addr, Layout(b.size, b.align)) = Self
    /\ \A ptr \in StrayPtrs, layout \in {l \in Layouts : Large(l)} :
           dealloc(Self, ptr, layout) = Self
    /\ (last.op = "dealloc" /\ Large(Layout(last.size, last.align))) => bump = last.bump0

\* the last call is a large alloc of non-zero size that succeeded
LargeAllocDone ==
    /\ last.op = "alloc" /\ last.ptr # NULL /\ last.size > 0
    /\ Large(Layout(last.size, last.align))

\* C37 (as stated): a dealloc with a large layout leaves the allocator
\* unchanged, and a large alloc of non-zero size that succeeded returned an
\* address at or above the cursor of its start, which is the address of no
\* other large block that is live
C37_AsStated ==
    /\ LargeDeallocFrame
    /\ LargeAllocDone =>
           /\ last.ptr >= last.bump0
           /\ Cardinality({b \in live : Large(Layout(b.size, b.align)) /\ b.addr = last.ptr}) = 1

\* C37 (large allocations are never recycled): a dealloc with a large layout
\* leaves the allocator unchanged, and a large alloc of non-zero size that
\* succeeded returned an address at or above the cursor of its start, which
\* lies in no other live large block of non-zero size
C37_LargeNotRecycled ==
    /\ LargeDeallocFrame
    /\ LargeAllocDone =>
           /\ last.ptr >= last.bump0
           /\ Cardinality({b \in live : /\ Large(Layout(b.size, b.align))
                                        /\ b.size > 0
                                        /\ b.addr <= last.ptr
                                        /\ last.ptr < b.addr + b.size}) = 1

\* a large block was returned at the start of the arena and deallocated, and
\* the next large alloc has returned a block above it
C37_Witness ==
    /\ last.op = "alloc" /\ last.ptr # NULL /\ last.size = CHUNK_SIZE + 1
    /\ last.bump0 = heap_start + CHUNK_SIZE + 1
    /\ live = {[addr |-> last.ptr, size |-> last.size, align |-> last.align, n |-> 1]}
    /\ last.ptr > last.bump0

\* layouts around the bounds of the classes: sizes at, below and above each
\* class size, with the alignments from 1 to twice CHUNK_SIZE
ClassLayouts ==
    {Layout(size, align) :
        size \in {0} \cup {SIZE_CLASSES[i] + d : i \in Classes, d \in {-1, 0, 1}},
        align \in {1, 2} \cup {SIZE_CLASSES[i] : i \in Classes} \cup {2 * CHUNK_SIZE}}

\* the class of the layout is the first one of SIZE_CLASSES that is at least
\* max(size, align), and there is none exactly when that is above 4096
ClassRule(layout) ==
    \A need \in {Max(layout.size, layout.align)}, idx \in {class_index_for(layout)} :
        /\ idx = NoClass <=> need > 4096
        /\ idx # NoClass =>
               /\ SIZE_CLASSES[idx] >= need
               /\ \A j \in 1..(idx - 1) : SIZE_CLASSES[j] < need

\* C38 (class selection): class_index_for follows the rule, for the layouts
\* around every class bound and for those of the calls made; and a block
\* that was just deallocated with a layout of a size class is what the next
\* alloc returns for exactly the layouts of that class, whatever size and
\* alignment put them there
C38_ClassSelection ==
    /\ ~initialized => \A layout \in ClassLayouts : ClassRule(layout)
    /\ \A layout \in SlabLayouts : ClassRule(layout)
    /\ (last.op = "dealloc" /\ last.init0 /\ last.ptr # NULL
            /\ ~Large(Layout(last.size, last.align)))
           => /\ caches[class_index_for(Layout(last.size, last.align))] = last.ptr
              /\ \A layout \in SlabLayouts :
                     alloc(Self, layout).res = last.ptr
                         <=> class_index_for(layout) =
                                 class_index_for(Layout(last.size, last.align))

\* a block of class 1024 requested by its alignment has just been
\* deallocated, and an alloc of 1024 bytes aligned to 8 would return it
C38_Witness ==
    /\ last.op = "dealloc" /\ last.init0 /\ last.ptr # NULL
    /\ last.size = 8 /\ last.align = 1024
    /\ alloc(Self, Layout(1024, 8)).res = last.ptr
    /\ alloc(Self, Layout(1025, 8)).res # last.ptr

\* the allocator after the step
SelfNext ==
    [heap_start |-> heap_start', heap_end |-> heap_end', bump |-> bump',
     caches |-> caches', initialized |-> initialized', mem |-> mem']

\* the step in which thread t's core method finishes has the effect and the
\* result of that method applied, in one piece, to the allocator as it is
\* when the step starts
TakesEffectAtOnce(t) ==
    \A c \in {call[t]} :
        /\ c.op = "init" => SelfNext = init(Self, LockHeap[1], LockHeap[2])
        /\ c.op = "alloc" =>
               \A r \in {alloc(Self, Layout(c.size, c.align))} :
                   SelfNext = r.self /\ ret'[t] = r.res
        /\ c.op = "dealloc" => SelfNext = dealloc(Self, c.ptr, Layout(c.size, c.align))

\* C39 (linearizability of the wrapper): every call made through LockedAlloc
\* by any thread takes effect at one step between its start and its return,
\* with the result the core method gives on the allocator of that moment, so
\* that the calls are those of a sequential execution in the order of these
\* steps; no two live blocks overlap, and the allocator is written by the
\* thread in the critical section alone
C39_Linearizable ==
    /\ [](\A b \in live : \A c \in live : b # c => Disjoint(b, c))
    /\ [][/\ \A t \in Threads :
                 (pc[t] = "core" /\ pc'[t] = "drop") => TakesEffectAtOnce(t)
          /\ (\A t \in Threads : ~(pc[t] = "core" /\ pc'[t] = "drop"))
                 => SelfNext = Self]_vars

\* a thread's alloc has returned a block while another thread, which holds a
\* block of its own, waits for the lock with a dealloc
C39_Witness ==
    \E t \in Threads : \E u \in Threads :
        /\ pc[t] = "drop" /\ call[t].op = "alloc" /\ ret[t] # NULL
        /\ pc[u] = "lock" /\ call[u].op = "dealloc" /\ call[u].ptr # ret[t]
        /\ \E b \in live : b.addr = ret[t]

\* C40 (the lock is not reentrant): a thread that calls lock while it holds
\* the lock finds the flag set at every turn, never gets past the loop and
\* stays in it for ever; from then on no thread acquires the lock
C40_NotReentrant ==
    /\ [](\A t \in Threads : pc[t] = "relock" => locked)
    /\ [](\A t \in Threads : pc[t] # "nested")
    /\ [][\A t \in Threads :
              pc[t] = "relock" =>
                  /\ pc'[t] = "relock"
                  /\ \A u \in Threads : pc'[u] = "guard" => pc[u] = "guard"]_vars

\* a thread spins in its nested call of lock after init, while another
\* thread waits for the lock with an alloc
C40_Witness ==
    \E t \in Threads : \E u \in Threads :
        /\ pc[t] = "relock" /\ call[t].op = "alloc"
        /\ initialized
        /\ pc[u] = "lock" /\ call[u].op = "alloc"
====
